---------------------------- MODULE Spec2Model ----------------------------
(***************************************************************************)
(* A model of the transactional core of go/main.go: shard routing          *)
(* (getDBForUserID), the one-time tokens (TokenCache, checkOneTimeToken,   *)
(* listGacha, listItem), present receipt and the batched reward grant      *)
(* (receivePresent, obtainItemsBatch) and the login bonus (login,          *)
(* loginProcess, obtainLoginBonus).                                        *)
(*                                                                         *)
(* The relational store is MySQL/InnoDB behind database/sql:               *)
(*   - a statement run on a *sqlx.DB handle is its own transaction and     *)
(*     sees, and changes, the committed rows;                              *)
(*   - a statement run on a *sqlx.Tx is buffered in that transaction and   *)
(*     reaches the committed rows at Commit, or never (Rollback);          *)
(*   - an UPDATE locks the rows it touches until its transaction ends, so  *)
(*     an UPDATE of a row another open transaction has updated waits;      *)
(*   - a plain SELECT takes no lock and reads committed rows.              *)
(* Every handler is cut into steps at its store and cache calls; requests  *)
(* of different goroutines interleave between steps.                       *)
(***************************************************************************)
EXTENDS Integers, Sequences, FiniteSets, TLC

(***************************************************************************)
(* Bounds of the model.                                                    *)
(***************************************************************************)
NumShards == 2
NumUsers == 2
MaxTokens == 1
MaxShardCount == 3
MaxHigh == 3
NumPresents == 3
MaxDays == 4

(***************************************************************************)
(* Program constants.                                                      *)
(***************************************************************************)
ShardShift == 23
TokenTTL == 600

ErrInvalidToken == "ErrInvalidToken"
ErrStore == "store error"
Ok == "nil"
None == "none"

(***************************************************************************)
(* Go integer arithmetic.  x >> k on a signed integer is the arithmetic    *)
(* shift (rounds towards minus infinity); x % n truncates towards zero and *)
(* so has the sign of x.                                                   *)
(***************************************************************************)
ShiftRight(x, k) == x \div (2 ^ k)

GoRem(x, n) == IF x >= 0 THEN x % n ELSE -((-x) % n)

(***************************************************************************)
(* getDBForUserID: the index into h.DBs computed for a user id, with       *)
(* n = len(h.DBs) >= 1.                                                    *)
(***************************************************************************)
ShardIndex(userID, n) == GoRem(ShiftRight(userID, ShardShift), n)

(***************************************************************************)
(* The user ids of the stateful specifications: ids as generateID makes    *)
(* them (positive), one per value of the bits above the shift.             *)
(***************************************************************************)
UserIDs == {k * (2 ^ ShardShift) : k \in 1..NumUsers}

Shards == 0..(NumShards - 1)

\* every user routed to the first database
DBOfFirst(userID) == 0

\* The database a user's requests are routed to.
DBOf(userID) == ShardIndex(userID, NumShards)

VARIABLES
    \* ---- shard routing of one call (SpecRoute)
    rtUserID,     \* the int64 user id of the call
    rtN,          \* len(h.DBs)
    rtState,      \* "input" | "routed" | "panic"
    rtIndex,      \* the index computed
    \* ---- one-time tokens (SpecToken)
    tokenCache,   \* h.TokenCache.tokens: token -> TokenInfo, or NoToken
    tokenRows,    \* user_one_time_tokens, per database
    nextToken,    \* the next token string generateUUID returns
    tpc,          \* per request: the step it is at
    targ,         \* per request: userID, token, tokenType, requestAt
    tres,         \* per request: what its last call returned
    tlate,        \* per request: its call began after a success on its token
    succeeded,    \* tokens a checkOneTimeToken call has returned nil for
    \* ---- the user tables (committed rows) and the master data cache
    balance,      \* users.isu_coin, per user id
    presents,     \* user_presents
    userCards,    \* user_cards
    userItems,    \* user_items
    userBonuses,  \* user_login_bonuses
    lastActivated,\* users.last_activated_at, per user id
    sessions,     \* user_sessions: the rows with deleted_at IS NULL
    history,      \* user_present_all_received_history
    cacheItems,   \* h.Cache.itemMasters: the item master ids cached
    cacheRewards, \* h.Cache.loginBonusRewards: the keys cached
    now,          \* the clock the request times are read from
    \* ---- the requests being served (SpecReceive, SpecReceiveSeq, SpecLogin)
    pc,           \* per request: the step it is at
    req,          \* per request: handler, userID, presentIDs, requestAt, ...
    batch,        \* per request: the presents handed to obtainItemsBatch
    snap,         \* per request: the snapshot its transaction reads
    tx,           \* per request: the writes of its open transaction
    res,          \* per request: its response
    sent,         \* per request: sendLoginBonuses
    granted,      \* per present id: the committed grants of its reward
    bonusLog,     \* per user: the committed runs of loginProcess, in order
    \* ---- the gacha and the idle reward (SpecDraw)
    cacheGacha,   \* h.Cache.gachaItems and h.Cache.gachaWeightSums
    lastGetReward,\* users.last_getreward_at, per user id
    muHeld,       \* per request: the cache mutex it holds, and how
    coinLog,      \* per user: the committed coin grants less the committed draw prices
    \* ---- one run of the draw loop (SpecPick)
    pkPool,       \* gachaItemList: the weights, in catalog order
    pkRandom,     \* the value rand.Int63n(sum) returned
    pkState,      \* "input" | "drawn"
    pkResult      \* the positions of the items appended to result

routeVars == <<rtUserID, rtN, rtState, rtIndex>>
tokenVars == <<tokenCache, tokenRows, nextToken, tpc, targ, tres,
               tlate, succeeded>>
storeVars == <<balance, presents, userCards, userItems, userBonuses,
               lastActivated, sessions, history>>
procVars == <<cacheItems, pc, req, batch, snap, tx, res, granted>>
loginVars == <<cacheRewards, now, sent, bonusLog>>
gachaVars == <<cacheGacha, lastGetReward, muHeld, coinLog>>
pickVars == <<pkPool, pkRandom, pkState, pkResult>>
vars == <<routeVars, tokenVars, storeVars, procVars, loginVars, gachaVars, pickVars>>
nonRouteVars == <<tokenVars, storeVars, procVars, loginVars, gachaVars, pickVars>>
nonTokenVars == <<routeVars, storeVars, procVars, loginVars, gachaVars, pickVars>>
\* what the steps of receivePresent and obtainItemsBatch never touch
nonGrantVars == <<routeVars, tokenVars, loginVars, gachaVars, pickVars>>

(***************************************************************************)
(* SpecRoute: getDBForUserID as a function of the user id and len(h.DBs).  *)
(* getUserID parses any decimal int64 from the path, negative ones too.    *)
(***************************************************************************)
RouteLows == {0, 1, (2 ^ ShardShift) - 1}

RouteIDs == {k * (2 ^ ShardShift) + l : k \in (-MaxHigh)..MaxHigh, l \in RouteLows}

RouteIdle ==
    /\ rtUserID = 0
    /\ rtN = 1
    /\ rtState = "input"
    /\ rtIndex = 0

TokenProcs == {1, 2}
ReqTimes == {0, 700}
TokenTypes == {1, 2}
\* the issuances the model lets succeed when requests are served in sequence
SeqTokens == MaxTokens + 1
Tokens == 1..SeqTokens
\* a token string no issuance ever returned
UnknownToken == 0
\* the databases: the hosts of ISUCON_DB_HOSTS, h.DBs[i] connected to host i
Databases == Shards
\* the database h.DB is connected to: ISUCON_DB_HOST, by default the host
\* ISUCON_DB_HOSTS names first (both default to 127.0.0.1)
MainDB == 0

\* the lookup of a token the cache does not hold
NoToken == [UserID |-> 0, TokenType |-> 0, ExpiredAt |-> 0, CreatedAt |-> 0]

NoArg == [userID |-> 0, token |-> 0, tokenType |-> 0, requestAt |-> 0]

TokenIdle ==
    /\ tokenCache = [t \in Tokens |-> NoToken]
    /\ tokenRows = [d \in Databases |-> {}]
    /\ nextToken = 1
    /\ tpc = [p \in TokenProcs |-> "idle"]
    /\ targ = [p \in TokenProcs |-> NoArg]
    /\ tres = [p \in TokenProcs |-> None]
    /\ tlate = [p \in TokenProcs |-> FALSE]
    /\ succeeded = {}

(***************************************************************************)
(* The requests that grant rewards.  Procs are the goroutines serving      *)
(* them; NoReq, EmptyTx are the values of a request not begun.             *)
(***************************************************************************)
Procs == {1, 2}

\* item_masters: a card (item_type 2) and a strengthening material (3)
ItemMasters ==
    { [id |-> 2, itemType |-> 2, amountPerSec |-> 5, maxLevel |-> 9,
       maxAmountPerSec |-> 21, baseExpPerLevel |-> 4, gainedExp |-> 0],
      [id |-> 17, itemType |-> 3, amountPerSec |-> 0, maxLevel |-> 0,
       maxAmountPerSec |-> 0, baseExpPerLevel |-> 0, gainedExp |-> 1] }

\* the user the presents of the model are addressed to
FirstUser == 2 ^ ShardShift

\* The user_presents rows a state may hold pending: coins, a card given
\* twice over, the same material twice, a card item_masters does not hold,
\* and an item type obtainItemsBatch has no case for.
PresentPool ==
    { [id |-> 1, userID |-> FirstUser, itemType |-> 1, itemID |-> 1,
       amount |-> 100, deleted |-> FALSE],
      [id |-> 2, userID |-> FirstUser, itemType |-> 2, itemID |-> 2,
       amount |-> 2, deleted |-> FALSE],
      [id |-> 3, userID |-> FirstUser, itemType |-> 3, itemID |-> 17,
       amount |-> 2, deleted |-> FALSE],
      [id |-> 4, userID |-> FirstUser, itemType |-> 3, itemID |-> 17,
       amount |-> 3, deleted |-> FALSE],
      [id |-> 5, userID |-> FirstUser, itemType |-> 2, itemID |-> 99,
       amount |-> 1, deleted |-> FALSE],
      [id |-> 6, userID |-> FirstUser, itemType |-> 5, itemID |-> 1,
       amount |-> 1, deleted |-> FALSE] }

\* a user whose rows live on the database of FirstUser
OtherUser == FirstUser + NumShards * (2 ^ ShardShift)

\* Presents of requests served one after the other only: coins addressed
\* to OtherUser, and a material whose item id item_masters holds as a card.
OddPresents ==
    { [id |-> 7, userID |-> OtherUser, itemType |-> 1, itemID |-> 1,
       amount |-> 7, deleted |-> FALSE],
      [id |-> 8, userID |-> FirstUser, itemType |-> 3, itemID |-> 2,
       amount |-> 1, deleted |-> FALSE] }

PoolIDs == {r.id : r \in PresentPool \cup OddPresents}

NoReq == [handler |-> None, userID |-> 0, presentIDs |-> {}, requestAt |-> 0,
          lastActivatedAt |-> 0]

\* NewMasterDataCache, lines 88-89: both gacha maps made empty
NoGachaCache == [gachaItems |-> <<>>, gachaWeightSums |-> <<>>]

\* a request that holds no mutex
NoLock == <<>>

\* the writes of a transaction: the user_presents rows marked received, the
\* coins added, the rows inserted into and the (id, amount) updates of
\* user_cards, user_items (cardUpd: the user_cards rows addExpToCard has
\* updated); for login the user_sessions rows deleted and
\* inserted, the user_login_bonuses rows inserted and updated, the
\* user_presents and history rows inserted, and whether users' activity
\* columns are set; for drawGacha the value isu_coin is set to (coinSet, a
\* sequence of no or one value)
EmptyTx == [marked |-> {}, coin |-> 0, coinSet |-> <<>>, cards |-> {}, cardUpd |-> {},
            itemUpd |-> {},
            itemIns |-> {}, sessDel |-> {}, sessIns |-> {}, bonusIns |-> {},
            bonusUpd |-> {}, presentIns |-> {}, historyIns |-> {},
            touch |-> FALSE]

\* no SELECT made yet in the transaction
NoSnap == [taken |-> FALSE, items |-> {}, bonuses |-> {}, history |-> {}]

\* no gacha is cached, no idle reward was claimed, no mutex is held
GachaIdle ==
    /\ cacheGacha = NoGachaCache
    /\ lastGetReward = [u \in UserIDs |-> 0]
    /\ muHeld = [p \in Procs |-> NoLock]
    /\ coinLog = [u \in UserIDs |-> 0]

PickIdle ==
    /\ pkPool = <<>>
    /\ pkRandom = 0
    /\ pkState = "input"
    /\ pkResult = <<>>

ProcsIdle ==
    /\ GachaIdle
    /\ PickIdle
    /\ cacheItems = {}
    /\ pc = [p \in Procs |-> "idle"]
    /\ req = [p \in Procs |-> NoReq]
    /\ batch = [p \in Procs |-> <<>>]
    /\ snap = [p \in Procs |-> NoSnap]
    /\ tx = [p \in Procs |-> EmptyTx]
    /\ res = [p \in Procs |-> None]
    /\ granted = [i \in PoolIDs |-> 0]
    /\ cacheRewards = {}
    /\ now = 0
    /\ sent = [p \in Procs |-> <<>>]
    /\ bonusLog = [u \in UserIDs |-> <<>>]

StoreIdle ==
    /\ balance = [u \in UserIDs |-> 0]
    /\ presents = {}
    /\ userCards = {}
    /\ userItems = {}
    /\ userBonuses = {}
    /\ lastActivated = [u \in UserIDs |-> 0]
    /\ sessions = {}
    /\ history = {}

InitRoute ==
    /\ rtUserID \in RouteIDs
    /\ rtN \in 1..MaxShardCount
    /\ rtState = "input"
    /\ rtIndex = 0
    /\ TokenIdle
    /\ StoreIdle
    /\ ProcsIdle

\* index := int(userID>>23) % len(h.DBs); return h.DBs[index]
\* An index outside h.DBs makes the Go runtime panic.
GetDBForUserID ==
    /\ rtState = "input"
    /\ rtIndex' = ShardIndex(rtUserID, rtN)
    /\ rtState' = IF rtIndex' \in 0..(rtN - 1) THEN "routed" ELSE "panic"
    /\ UNCHANGED <<rtUserID, rtN, nonRouteVars>>

\* the next request: another user id
RouteNextRequest ==
    /\ rtState # "input"
    /\ rtUserID' \in RouteIDs
    /\ rtState' = "input"
    /\ rtIndex' = 0
    /\ UNCHANGED <<rtN, nonRouteVars>>

NextRoute == GetDBForUserID \/ RouteNextRequest

SpecRoute == InitRoute /\ [][NextRoute]_vars

\* C8: getDBForUserID computes an index in [0, N) for every int64 user id
\* and every shard count N >= 1, and index 0 when N = 1.
C8_IndexInRange ==
    rtState # "input" =>
        /\ rtState = "routed"
        /\ rtIndex \in 0..(rtN - 1)
        /\ (rtN = 1 => rtIndex = 0)

(***************************************************************************)
(* SpecToken: the one-time tokens.  listGacha and listItem issue a token   *)
(* (store first, then the cache); checkOneTimeToken consumes one.          *)
(***************************************************************************)
InitToken ==
    /\ RouteIdle
    /\ tokenCache = [t \in Tokens |-> NoToken]
    /\ tokenRows = [d \in Databases |-> {}]
    /\ nextToken = 1
    /\ tpc = [p \in TokenProcs |-> "idle"]
    /\ targ = [p \in TokenProcs |-> NoArg]
    /\ tres = [p \in TokenProcs |-> None]
    /\ tlate = [p \in TokenProcs |-> FALSE]
    /\ succeeded = {}
    /\ StoreIdle
    /\ ProcsIdle

\* the token strings a client can send: one never issued, and those a
\* response of listGacha or listItem has carried (the response is written
\* after SetToken)
SentTokens ==
    {UnknownToken} \cup
        {t \in Tokens : t < nextToken /\
                           \A q \in TokenProcs : ~(tpc[q] = "setToken" /\ targ[q].token = t)}

\* TokenCache.GetToken
GetToken(t) == IF t \in Tokens THEN tokenCache[t] ELSE NoToken

\* TokenCache.DeleteToken
DeleteToken(t) == [x \in Tokens |-> IF x = t THEN NoToken ELSE tokenCache[x]]

\* TokenCache.SetToken
SetToken(t, info) == [tokenCache EXCEPT ![t] = info]

\* an UPDATE that marks no row
MarkNoToken(d, t) == tokenRows

\* UPDATE user_one_time_tokens SET deleted_at=? WHERE token=?   (on database d)
MarkTokenDeleted(d, t) ==
    [tokenRows EXCEPT ![d] =
        {IF r.token = t THEN [r EXCEPT !.deleted = TRUE] ELSE r : r \in @}]

\* UPDATE user_one_time_tokens SET deleted_at=? WHERE user_id=? AND deleted_at IS NULL
MarkUserTokensDeleted(d, u) ==
    [tokenRows EXCEPT ![d] =
        {IF r.userID = u THEN [r EXCEPT !.deleted = TRUE] ELSE r : r \in @}]

\* the SELECT without `AND token_type=?`
SelectTokenAnyKind(d, t, ty) ==
    {r \in tokenRows[d] : r.token = t /\ ~r.deleted}

\* SELECT * FROM user_one_time_tokens WHERE token=? AND token_type=? AND deleted_at IS NULL
SelectToken(d, t, ty) ==
    {r \in tokenRows[d] : r.token = t /\ r.tokenType = ty /\ ~r.deleted}

\* a call of checkOneTimeToken returns r
TokenReturn(p, r) ==
    /\ tpc' = [tpc EXCEPT ![p] = "done"]
    /\ tres' = [tres EXCEPT ![p] = r]
    /\ succeeded' = IF r = Ok THEN succeeded \cup {targ[p].token} ELSE succeeded

\* drawGacha (token type 1) and addExpToCard (token type 2) call
\* checkOneTimeToken with the path's user id and the body's token.
\* line 484: the cache lookup, and the checks made on the TokenInfo it returned
CheckOneTimeToken(p, u, t, ty, at) ==
    /\ tpc[p] = "idle"
    /\ t \in SentTokens
    /\ targ' = [targ EXCEPT ![p] =
                    [userID |-> u, token |-> t, tokenType |-> ty, requestAt |-> at]]
    /\ tlate' = [tlate EXCEPT ![p] = t \in succeeded]
    /\ LET info == GetToken(t) IN
       IF info = NoToken
       THEN /\ tpc' = [tpc EXCEPT ![p] = "ckSelect"]
            /\ UNCHANGED <<tres, succeeded>>
       ELSE IF info.TokenType # ty
       THEN /\ tpc' = [tpc EXCEPT ![p] = "done"]
            /\ tres' = [tres EXCEPT ![p] = ErrInvalidToken]
            /\ UNCHANGED succeeded
       ELSE IF info.ExpiredAt < at
       THEN /\ tpc' = [tpc EXCEPT ![p] = "ckExpiredDelete"]
            /\ UNCHANGED <<tres, succeeded>>
       ELSE /\ tpc' = [tpc EXCEPT ![p] = "ckHitDelete"]
            /\ UNCHANGED <<tres, succeeded>>
    /\ UNCHANGED <<tokenCache, tokenRows, nextToken, nonTokenVars>>

\* line 492: the expired token leaves the cache
CkExpiredDelete(p) ==
    /\ tpc[p] = "ckExpiredDelete"
    /\ tokenCache' = DeleteToken(targ[p].token)
    /\ tpc' = [tpc EXCEPT ![p] = "ckExpiredExec"]
    /\ UNCHANGED <<tokenRows, nextToken, targ, tres, tlate, succeeded,
                   nonTokenVars>>

\* lines 494-496
CkExpiredExec(p) ==
    /\ tpc[p] = "ckExpiredExec"
    /\ tokenRows' = MarkTokenDeleted(DBOf(targ[p].userID), targ[p].token)
    /\ TokenReturn(p, ErrInvalidToken)
    /\ UNCHANGED <<tokenCache, nextToken, targ, tlate, nonTokenVars>>

\* line 500: the used token leaves the cache
CkHitDelete(p) ==
    /\ tpc[p] = "ckHitDelete"
    /\ tokenCache' = DeleteToken(targ[p].token)
    /\ tpc' = [tpc EXCEPT ![p] = "ckHitExec"]
    /\ UNCHANGED <<tokenRows, nextToken, targ, tres, tlate, succeeded,
                   nonTokenVars>>

\* lines 502-507
CkHitExec(p) ==
    /\ tpc[p] = "ckHitExec"
    /\ tokenRows' = MarkTokenDeleted(DBOf(targ[p].userID), targ[p].token)
    /\ TokenReturn(p, Ok)
    /\ UNCHANGED <<tokenCache, nextToken, targ, tlate, nonTokenVars>>

\* lines 511-528: the store fallback
CkSelect(p) ==
    /\ tpc[p] = "ckSelect"
    /\ LET rows == SelectToken(DBOf(targ[p].userID), targ[p].token, targ[p].tokenType) IN
       IF rows = {}
       THEN TokenReturn(p, ErrInvalidToken)
       ELSE /\ tpc' = [tpc EXCEPT ![p] =
                          IF \E r \in rows : r.expiredAt < targ[p].requestAt
                          THEN "ckDbExpiredExec" ELSE "ckDbExec"]
            /\ UNCHANGED <<tres, succeeded>>
    /\ UNCHANGED <<tokenCache, tokenRows, nextToken, targ, tlate, nonTokenVars>>

\* lines 522-528
CkDbExpiredExec(p) ==
    /\ tpc[p] = "ckDbExpiredExec"
    /\ tokenRows' = MarkTokenDeleted(DBOf(targ[p].userID), targ[p].token)
    /\ TokenReturn(p, ErrInvalidToken)
    /\ UNCHANGED <<tokenCache, nextToken, targ, tlate, nonTokenVars>>

\* lines 530-536
CkDbExec(p) ==
    /\ tpc[p] = "ckDbExec"
    /\ tokenRows' = MarkTokenDeleted(DBOf(targ[p].userID), targ[p].token)
    /\ TokenReturn(p, Ok)
    /\ UNCHANGED <<tokenCache, nextToken, targ, tlate, nonTokenVars>>

\* the request of listGacha / listItem reaches the token issuance
IssueStart(p, u, ty, at, pc0) ==
    /\ tpc[p] = "idle"
    /\ tpc' = [tpc EXCEPT ![p] = pc0]
    /\ targ' = [targ EXCEPT ![p] =
                    [userID |-> u, token |-> 0, tokenType |-> ty, requestAt |-> at]]
    /\ tres' = [tres EXCEPT ![p] = None]
    /\ tlate' = [tlate EXCEPT ![p] = FALSE]
    /\ UNCHANGED <<tokenCache, tokenRows, nextToken, succeeded, nonTokenVars>>

\* listGacha issues a token of type 1
ListGacha(p, u, at) == IssueStart(p, u, 1, at, "lgInvalidate")

\* listItem issues a token of type 2
ListItem(p, u, at) == IssueStart(p, u, 2, at, "liInvalidate")

\* listGacha lines 1643-1646: on h.DB
LgInvalidate(p) ==
    /\ tpc[p] = "lgInvalidate"
    /\ tokenRows' = MarkUserTokensDeleted(MainDB, targ[p].userID)
    /\ tpc' = [tpc EXCEPT ![p] = "insert"]
    /\ UNCHANGED <<tokenCache, nextToken, targ, tres, tlate, succeeded,
                   nonTokenVars>>

\* listItem lines 2072-2075: on getDBForUserID(userID)
LiInvalidate(p) ==
    /\ tpc[p] = "liInvalidate"
    /\ tokenRows' = MarkUserTokensDeleted(DBOf(targ[p].userID), targ[p].userID)
    /\ tpc' = [tpc EXCEPT ![p] = "insert"]
    /\ UNCHANGED <<tokenCache, nextToken, targ, tres, tlate, succeeded,
                   nonTokenVars>>

\* the database the new token row is inserted in: h.DB
InsertDB(u) == MainDB

\* listGacha lines 1647-1667, listItem lines 2076-2096: generateUUID, and
\* the INSERT, on h.DB in both
IssueInsertUpTo(p, cap) ==
    /\ tpc[p] = "insert"
    /\ nextToken <= cap
    /\ tokenRows' = [tokenRows EXCEPT ![InsertDB(targ[p].userID)] = @ \cup
           {[token |-> nextToken, userID |-> targ[p].userID,
             tokenType |-> targ[p].tokenType,
             expiredAt |-> targ[p].requestAt + TokenTTL, deleted |-> FALSE]}]
    /\ targ' = [targ EXCEPT ![p].token = nextToken]
    /\ nextToken' = nextToken + 1
    /\ tpc' = [tpc EXCEPT ![p] = "setToken"]
    /\ UNCHANGED <<tokenCache, tres, tlate, succeeded, nonTokenVars>>

\* the issuances of requests served concurrently
IssueInsert(p) == IssueInsertUpTo(p, MaxTokens)

\* listGacha lines 1647-1669, listItem lines 2076-2098: generateID,
\* generateUUID or the INSERT returns an error and the handler answers 500;
\* the UPDATE made before stays.  The model issues MaxTokens tokens: the
\* issuances after them end here.
IssueFail(p) ==
    /\ tpc[p] = "insert"
    /\ tpc' = [tpc EXCEPT ![p] = "done"]
    /\ tres' = [tres EXCEPT ![p] = ErrStore]
    /\ UNCHANGED <<tokenCache, tokenRows, nextToken, targ, tlate, succeeded,
                   nonTokenVars>>

\* listGacha line 1670, listItem line 2099
IssueSetToken(p) ==
    /\ tpc[p] = "setToken"
    /\ tokenCache' = SetToken(targ[p].token,
           [UserID |-> targ[p].userID, TokenType |-> targ[p].tokenType,
            ExpiredAt |-> targ[p].requestAt + TokenTTL,
            CreatedAt |-> targ[p].requestAt])
    /\ tpc' = [tpc EXCEPT ![p] = "done"]
    /\ tres' = [tres EXCEPT ![p] = "issued"]
    /\ UNCHANGED <<tokenRows, nextToken, targ, tlate, succeeded, nonTokenVars>>

\* the response is written; the goroutine serves its next request
TokenFinish(p) ==
    /\ tpc[p] = "done"
    /\ tpc' = [tpc EXCEPT ![p] = "idle"]
    /\ targ' = [targ EXCEPT ![p] = NoArg]
    /\ tres' = [tres EXCEPT ![p] = None]
    /\ tlate' = [tlate EXCEPT ![p] = FALSE]
    /\ UNCHANGED <<tokenCache, tokenRows, nextToken, succeeded, nonTokenVars>>

\* the token strings a client can send: those issued so far (t < nextToken),
\* and one never issued
KnownTokens == {UnknownToken} \cup Tokens

NextToken ==
    \/ \E p \in TokenProcs, u \in UserIDs, at \in ReqTimes : ListGacha(p, u, at)
    \/ \E p \in TokenProcs, u \in UserIDs, at \in ReqTimes : ListItem(p, u, at)
    \/ \E p \in TokenProcs : LgInvalidate(p)
    \/ \E p \in TokenProcs : LiInvalidate(p)
    \/ \E p \in TokenProcs : IssueInsert(p)
    \/ \E p \in TokenProcs : IssueFail(p)
    \/ \E p \in TokenProcs : IssueSetToken(p)
    \/ \E p \in TokenProcs, u \in UserIDs, t \in KnownTokens, ty \in TokenTypes,
          at \in ReqTimes : CheckOneTimeToken(p, u, t, ty, at)
    \/ \E p \in TokenProcs : CkExpiredDelete(p)
    \/ \E p \in TokenProcs : CkExpiredExec(p)
    \/ \E p \in TokenProcs : CkHitDelete(p)
    \/ \E p \in TokenProcs : CkHitExec(p)
    \/ \E p \in TokenProcs : CkSelect(p)
    \/ \E p \in TokenProcs : CkDbExpiredExec(p)
    \/ \E p \in TokenProcs : CkDbExec(p)
    \/ \E p \in TokenProcs : TokenFinish(p)

SpecToken == InitToken /\ [][NextToken]_vars

\* C1: once checkOneTimeToken has succeeded for a token string, every later
\* checkOneTimeToken call with that token string, whatever its user id, kind
\* or request time, returns ErrInvalidToken (so none returns nil).
C1_ConsumedTokenFails ==
    \A p \in TokenProcs : (tpc[p] = "done" /\ tlate[p]) => tres[p] = ErrInvalidToken

\* C2: of the checkOneTimeToken calls for one live token that run
\* concurrently (none began after another had returned success), at most one
\* returns success.
C2_OneConcurrentSuccess ==
    \A p, q \in TokenProcs :
        (/\ p # q
         /\ targ[p].userID = targ[q].userID
         /\ tpc[p] = "done" /\ tres[p] = Ok /\ ~tlate[p]
         /\ tpc[q] = "done" /\ tres[q] = Ok /\ ~tlate[q])
        => targ[p].token # targ[q].token

\* C7: every store write made for a user is issued on the database
\* getDBForUserID selects for that user; here, the rows of
\* user_one_time_tokens that listGacha and listItem insert.
C7_TokenRowsOnUserShard ==
    \A d \in Databases : \A r \in tokenRows[d] : d = DBOf(r.userID)

(***************************************************************************)
(* SpecReceive: receivePresent and obtainItemsBatch.  The transaction      *)
(* isolation is the server's default, REPEATABLE READ: the first SELECT of *)
(* a transaction fixes the snapshot its later SELECTs read.                *)
(***************************************************************************)
ErrItemNotFound == "ErrItemNotFound"
ErrReceivedPresent == "received present"

\* the rows of a set in ascending id, as a SELECT by primary key returns them
RECURSIVE SortByID(_)
SortByID(S) ==
    IF S = {} THEN <<>>
    ELSE LET r == CHOOSE x \in S : \A y \in S : x.id <= y.id
         IN <<r>> \o SortByID(S \ {r})

RECURSIVE SumAmount(_)
SumAmount(b) == IF b = <<>> THEN 0 ELSE Head(b).amount + SumAmount(Tail(b))

IsCoin(r) == r.itemType = 1
IsCard(r) == r.itemType = 2
IsMaterial(r) == r.itemType \in {3, 4}

\* CoinTotal keeping the amount of the last coin entry only
CoinLast(b) ==
    LET c == SelectSeq(b, IsCoin)
    IN IF c = <<>> THEN 0 ELSE c[Len(c)].amount

\* obtainItemsBatch lines 1012-1021: the grouping by item type
CoinTotal(b) == SumAmount(SelectSeq(b, IsCoin))
CardItems(b) == SelectSeq(b, IsCard)
MaterialIDs(b) == {b[i].itemID : i \in {j \in DOMAIN b : IsMaterial(b[j])}}
MaterialAmount(b, itemID) ==
    LET OfItem(r) == IsMaterial(r) /\ r.itemID = itemID
    IN SumAmount(SelectSeq(b, OfItem))

\* ExpandCards making one card per entry, whatever its amount
RECURSIVE ExpandCardsOnce(_)
ExpandCardsOnce(cs) ==
    IF cs = <<>> THEN <<>>
    ELSE <<Head(cs).itemID>> \o ExpandCardsOnce(Tail(cs))

\* lines 1068-1091: one card id per unit of amount, in the order of the batch
RECURSIVE ExpandCards(_)
ExpandCards(cs) ==
    IF cs = <<>> THEN <<>>
    ELSE [i \in 1..Head(cs).amount |-> Head(cs).itemID] \o ExpandCards(Tail(cs))

ItemMasterOf(id) == CHOOSE m \in ItemMasters : m.id = id

\* SELECT * FROM user_presents WHERE id IN (?) AND deleted_at IS NULL, on
\* database d (each user's rows live on the database of that user)
SelectPresents(d, ids) ==
    {r \in presents : r.id \in ids /\ ~r.deleted /\ DBOf(r.userID) = d}

\* SELECT * FROM user_items WHERE user_id = ? AND item_id IN (?), on the
\* rows of the transaction's snapshot
SelectUserItems(rows, u, itemIDs) ==
    {r \in rows : r.userID = u /\ r.itemID \in itemIDs}

\* the first SELECT of the transaction of request p fixes the rows of its
\* user that its SELECTs see
TakeSnap(p) ==
    IF snap[p].taken THEN snap[p]
    ELSE [taken |-> TRUE,
          items |-> {r \in userItems : r.userID = req[p].userID},
          bonuses |-> {r \in userBonuses : r.userID = req[p].userID},
          history |-> {r \in history : r.userID = req[p].userID}]

\* lines 1124-1127: existingMap[item.ItemID] = item; of several rows of one
\* item the last the SELECT returned stays, the one of the greatest id
ExistingOf(rows, itemID) ==
    CHOOSE r \in rows : r.itemID = itemID /\
        \A y \in rows : y.itemID = itemID => y.id <= r.id

\* the steps made inside a transaction
InTxPcs == {"rpMark", "gCoin", "gCards", "gItemsSelect", "gItemsWrite", "commit",
            "lgSession", "lgSameDay", "lpUser", "lpBonus", "lpRewards",
            "lpPresent", "lpTouch", "dgWrite", "aeWrite"}

\* rows another open transaction has updated, and so holds locked
PresentsLockedFor(p) == UNION {tx[q].marked : q \in Procs \ {p}}
UsersLockedFor(p) ==
    {req[q].userID : q \in {x \in Procs \ {p} :
                                tx[x].coin > 0 \/ tx[x].touch \/ tx[x].coinSet # <<>>}}
SessionsLockedFor(p) == UNION {tx[q].sessDel : q \in Procs \ {p}}
BonusesLockedFor(p) ==
    UNION {{r.id : r \in tx[q].bonusUpd} : q \in Procs \ {p}}
ItemsLockedFor(p) ==
    UNION {{x.id : x \in tx[q].itemUpd} : q \in Procs \ {p}}
CardsLockedFor(p) ==
    UNION {{x.id : x \in tx[q].cardUpd} : q \in Procs \ {p}}

\* Abort with the transaction's writes kept, as if nothing rolled it back
AbortNoRollback(p, err) ==
    /\ pc' = [pc EXCEPT ![p] = "done"]
    /\ res' = [res EXCEPT ![p] = err]
    /\ tx' = tx
    /\ snap' = [snap EXCEPT ![p] = NoSnap]

\* the handler returns an error response (obtainItemsBatch and its locals are
\* left); the deferred tx.Rollback() drops
\* the writes of its transaction
Abort(p, err) ==
    /\ pc' = [pc EXCEPT ![p] = "done"]
    /\ res' = [res EXCEPT ![p] = err]
    /\ tx' = [tx EXCEPT ![p] = EmptyTx]
    /\ snap' = [snap EXCEPT ![p] = NoSnap]

\* the step that follows obtainItemsBatch returning nil: Commit in
\* receivePresent, obtainPresent in loginProcess
AfterGrant(p) == IF req[p].handler = "login" THEN "lpPresent" ELSE "commit"

\* obtainItemsBatch lines 1024, 1032, 1105: the groups that are empty make
\* no store call; the next step of request p, at or after step k
\* (1 coins, 2 cards, 3 materials), is that of the first group with work
GrantPc(p, b, k) ==
    IF k <= 1 /\ CoinTotal(b) > 0 THEN "gCoin"
    ELSE IF k <= 2 /\ CardItems(b) # <<>> THEN "gCards"
    ELSE IF k <= 3 /\ MaterialIDs(b) # {} THEN "gItemsSelect"
    ELSE AfterGrant(p)

\* receivePresent lines 1927-1973: the request of user u names the presents
\* ids (ids of rows of user_presents, pending or received, and at least
\* one: line 1944); the pending ones are read outside any transaction
ReceivePresent(p, u, ids) ==
    /\ pc[p] = "idle"
    /\ ids # {}
    /\ ids \subseteq {r.id : r \in presents}
    /\ req' = [req EXCEPT ![p] =
                  [handler |-> "receivePresent", userID |-> u, presentIDs |-> ids,
                   requestAt |-> now, lastActivatedAt |-> 0]]
    /\ LET obtainPresent == SelectPresents(DBOf(u), ids) IN
       /\ batch' = [batch EXCEPT ![p] = SortByID(obtainPresent)]
       /\ pc' = [pc EXCEPT ![p] = IF obtainPresent = {} THEN "done" ELSE "rpMark"]
       /\ res' = [res EXCEPT ![p] = IF obtainPresent = {} THEN Ok ELSE None]
    /\ UNCHANGED <<storeVars, cacheItems, snap, tx, granted,
                   nonGrantVars>>

\* lines 1975-2001: Beginx, then
\* UPDATE user_presents SET deleted_at=?, updated_at=? WHERE id IN (?)
RpMark(p) ==
    /\ pc[p] = "rpMark"
    /\ LET ids == {batch[p][i].id : i \in DOMAIN batch[p]} IN
       IF \E i \in DOMAIN batch[p] : batch[p][i].deleted
       THEN Abort(p, ErrReceivedPresent)
       ELSE /\ ids \cap PresentsLockedFor(p) = {}
            /\ tx' = [tx EXCEPT ![p].marked = ids]
            /\ pc' = [pc EXCEPT ![p] = GrantPc(p, batch[p], 1)]
            /\ UNCHANGED <<res, snap>>
    /\ UNCHANGED <<storeVars, cacheItems, req, batch, granted, nonGrantVars>>

\* GrantCoin with the UPDATE run on the database handle, not on the transaction
GrantCoinOnDB(p) ==
    /\ pc[p] = "gCoin"
    /\ req[p].userID \notin UsersLockedFor(p)
    /\ balance' = [balance EXCEPT ![req[p].userID] = @ + CoinTotal(batch[p])]
    /\ pc' = [pc EXCEPT ![p] = GrantPc(p, batch[p], 2)]
    /\ UNCHANGED <<presents, userCards, userItems, userBonuses, lastActivated,
                   sessions, history, tx, cacheItems, req, batch, snap, res,
                   granted, nonGrantVars>>

\* obtainItemsBatch lines 1024-1029:
\* UPDATE users SET isu_coin = isu_coin + ? WHERE id = ?
GrantCoin(p) ==
    /\ pc[p] = "gCoin"
    /\ req[p].userID \notin UsersLockedFor(p)
    /\ tx' = [tx EXCEPT ![p].coin = CoinTotal(batch[p])]
    /\ pc' = [pc EXCEPT ![p] = GrantPc(p, batch[p], 2)]
    /\ UNCHANGED <<storeVars, cacheItems, req, batch, snap, res,
                   granted, nonGrantVars>>

\* generateID returns an id no earlier call returned.  The rows of a
\* transaction rolled back are seen by nobody, so the n ids generated are
\* the least ones that no row of the table, committed or pending, holds.
RECURSIVE GenerateIDs(_, _)
GenerateIDs(used, n) ==
    IF n = 0 THEN <<>>
    ELSE LET id == CHOOSE i \in 1..(Cardinality(used) + 1) : i \notin used /\
                       \A j \in 1..(Cardinality(used) + 1) : j \notin used => i <= j
         IN <<id>> \o GenerateIDs(used \cup {id}, n - 1)

UsedCardIDs ==
    {r.id : r \in userCards} \cup UNION {{r.id : r \in tx[q].cards} : q \in Procs}

UsedItemIDs ==
    {r.id : r \in userItems} \cup UNION {{r.id : r \in tx[q].itemIns} : q \in Procs}

\* lines 1032-1102: the card masters from the cache, the missing ones from
\* item_masters (and into the cache), then one user_cards row per unit
GrantCards(p) ==
    /\ pc[p] = "gCards"
    /\ LET cs == CardItems(batch[p])
           ids == {cs[i].itemID : i \in DOMAIN cs}
           missingCardIDs == ids \ cacheItems
           fetched == {m.id : m \in {x \in ItemMasters :
                                        x.id \in missingCardIDs /\ x.itemType = 2}}
           masterMap == (ids \cap cacheItems) \cup fetched
           unknown == {i \in DOMAIN cs : cs[i].itemID \notin masterMap}
           cIDs == ExpandCards(cs)
           newIDs == GenerateIDs(UsedCardIDs, Len(cIDs))
       IN
       /\ cacheItems' = cacheItems \cup fetched
       /\ IF unknown # {}
          THEN Abort(p, ErrItemNotFound)
          ELSE /\ snap' = IF missingCardIDs # {}
                          THEN [snap EXCEPT ![p] = TakeSnap(p)]
                          ELSE snap
               /\ tx' = [tx EXCEPT
                           ![p].cards =
                               {[id |-> newIDs[i],
                                 userID |-> req[p].userID,
                                 cardID |-> cIDs[i],
                                 amountPerSec |-> ItemMasterOf(cIDs[i]).amountPerSec,
                                 level |-> 1,
                                 totalExp |-> 0] : i \in DOMAIN cIDs}]
               /\ pc' = [pc EXCEPT ![p] = GrantPc(p, batch[p], 3)]
               /\ UNCHANGED res
    /\ UNCHANGED <<storeVars, req, batch, granted, nonGrantVars>>

\* lines 1105-1144: the user's rows of the batch's materials (read in the
\* transaction's snapshot) and their masters
GrantItemsSelect(p) ==
    /\ pc[p] = "gItemsSelect"
    /\ pc' = [pc EXCEPT ![p] = "gItemsWrite"]
    /\ snap' = [snap EXCEPT ![p] = TakeSnap(p)]
    /\ UNCHANGED <<storeVars, cacheItems, req, batch, tx, res, granted,
                   nonGrantVars>>

RECURSIVE SortInts(_)
SortInts(S) ==
    IF S = {} THEN <<>>
    ELSE LET m == CHOOSE x \in S : \A y \in S : x <= y
         IN <<m>> \o SortInts(S \ {m})

\* lines 1147-1224: the material held already is set to its amount read
\* plus the batch's (UPDATE ... amount = CASE id WHEN .. THEN ..), the
\* material not held gets a new row (INSERT INTO user_items).  The loop runs
\* in the order of a Go map; the new ids are given here by ascending item.
GrantItemsWrite(p) ==
    /\ pc[p] = "gItemsWrite"
    /\ LET itemIDs == MaterialIDs(batch[p])
           masterMap == {m.id : m \in {x \in ItemMasters :
                                          x.id \in itemIDs /\ x.itemType \in {3, 4}}}
           existingItems == SelectUserItems(snap[p].items, req[p].userID, itemIDs)
           held == {i \in itemIDs : \E r \in existingItems : r.itemID = i}
           new == SortInts((itemIDs \cap masterMap) \ held)
           newIDs == GenerateIDs(UsedItemIDs, Len(new))
       IN
       IF itemIDs # masterMap
       THEN Abort(p, ErrItemNotFound)
       ELSE /\ {ExistingOf(existingItems, i).id : i \in held} \cap ItemsLockedFor(p) = {}
            /\ tx' = [tx EXCEPT
                        ![p].itemUpd =
                            {[id |-> ExistingOf(existingItems, i).id,
                              amount |-> ExistingOf(existingItems, i).amount
                                           + MaterialAmount(batch[p], i)] : i \in held},
                        ![p].itemIns =
                            {[id |-> newIDs[k],
                              userID |-> req[p].userID,
                              itemID |-> new[k],
                              itemType |-> ItemMasterOf(new[k]).itemType,
                              amount |-> MaterialAmount(batch[p], new[k])]
                                 : k \in DOMAIN new}]
            /\ pc' = [pc EXCEPT ![p] = AfterGrant(p)]
            /\ UNCHANGED <<res, snap>>
    /\ UNCHANGED <<storeVars, cacheItems, req, batch, granted, nonGrantVars>>

(***************************************************************************)
(* Login: login, loginProcess, obtainLoginBonus, obtainPresent.            *)
(***************************************************************************)
ErrLoginBonusRewardNotFound == "ErrLoginBonusRewardNotFound"

\* time.Local is UTC+9 (line 231); request times are Unix seconds
ZoneOffset == 9 * 60 * 60
DayLen == 24 * 60 * 60
HalfDay == 12 * 60 * 60

\* the calendar day, in time.Local, of the Unix time t
LocalDay(t) == (t + ZoneOffset) \div DayLen

\* isCompleteTodayLogin: same year, month and day in time.Local
IsCompleteTodayLogin(lastActivatedAt, requestAt) ==
    LocalDay(lastActivatedAt) = LocalDay(requestAt)

\* the day after the days of the model, and one more
LateDay == (MaxDays + 1) * DayLen

\* login_bonus_masters: a looping bonus of three columns and a bonus of two
\* columns that does not loop, both active at all times of the model, a
\* bonus of one column active on the second and third day only, and a bonus
\* of one column active on LateDay only, for which login_bonus_reward_masters
\* holds no row
LoginBonusMasters ==
    { [id |-> 1, startAt |-> 0, endAt |-> 2000000000, columnCount |-> 3,
       looped |-> TRUE],
      [id |-> 2, startAt |-> 0, endAt |-> 2000000000, columnCount |-> 2,
       looped |-> FALSE],
      [id |-> 3, startAt |-> DayLen, endAt |-> 2 * DayLen, columnCount |-> 1,
       looped |-> FALSE],
      [id |-> 4, startAt |-> LateDay, endAt |-> LateDay + DayLen - 1,
       columnCount |-> 1, looped |-> FALSE] }

\* login_bonus_reward_masters: coins, a card and a material for the looping
\* bonus; coins in hundreds for bonus 2, ten thousand coins for bonus 3
LoginBonusRewardMasters ==
    { [bonusID |-> 1, seq |-> 1, itemType |-> 1, itemID |-> 1, amount |-> 1],
      [bonusID |-> 1, seq |-> 2, itemType |-> 2, itemID |-> 2, amount |-> 1],
      [bonusID |-> 1, seq |-> 3, itemType |-> 3, itemID |-> 17, amount |-> 1],
      [bonusID |-> 2, seq |-> 1, itemType |-> 1, itemID |-> 1, amount |-> 100],
      [bonusID |-> 2, seq |-> 2, itemType |-> 1, itemID |-> 1, amount |-> 200],
      [bonusID |-> 3, seq |-> 1, itemType |-> 1, itemID |-> 1, amount |-> 10000] }

\* present_all_masters: one present scheduled for every user
PresentAllMasters ==
    { [id |-> 1, startAt |-> 0, endAt |-> 2000000000, itemType |-> 1,
       itemID |-> 1, amount |-> 50] }

\* SELECT * FROM login_bonus_masters WHERE start_at <= ? AND end_at >= ?
ActiveBonuses(at) ==
    SortByID({b \in LoginBonusMasters : b.startAt <= at /\ b.endAt >= at})

\* SELECT * FROM present_all_masters WHERE registered_start_at <= ? AND
\* registered_end_at >= ?
ActivePresentAll(at) ==
    SortByID({m \in PresentAllMasters : m.startAt <= at /\ m.endAt >= at})

\* lines 660-663: existingMap[bonus.LoginBonusID] = bonus, the last row wins
ExistingBonus(rows, bonusID) ==
    CHOOSE r \in rows : r.bonusID = bonusID /\
        \A y \in rows : y.bonusID = bonusID => y.id <= r.id

\* Exhausted with the check of bonus.Looped forgotten
ExhaustedNever(row, bonus) == FALSE

\* lines 690-699: the bonus is skipped (continue)
Exhausted(row, bonus) == ~(row.seq < bonus.columnCount) /\ ~bonus.looped

\* AdvanceBonus counting the loops downwards
AdvanceBonusLoopBack(row, bonus, at) ==
    IF row.seq < bonus.columnCount
    THEN [row EXCEPT !.seq = @ + 1, !.updatedAt = at]
    ELSE [row EXCEPT !.loop = @ - 1, !.seq = 1, !.updatedAt = at]

\* AdvanceBonus wrapping without counting the loop
AdvanceBonusNoLoop(row, bonus, at) ==
    IF row.seq < bonus.columnCount
    THEN [row EXCEPT !.seq = @ + 1, !.updatedAt = at]
    ELSE [row EXCEPT !.seq = 1, !.updatedAt = at]

\* lines 690-701: the progress of a bonus that is not skipped
AdvanceBonus(row, bonus, at) ==
    IF row.seq < bonus.columnCount
    THEN [row EXCEPT !.seq = @ + 1, !.updatedAt = at]
    ELSE [row EXCEPT !.loop = @ + 1, !.seq = 1, !.updatedAt = at]

UsedSessionIDs ==
    {r.id : r \in sessions} \cup UNION {{r.id : r \in tx[q].sessIns} : q \in Procs}

UsedBonusIDs ==
    {r.id : r \in userBonuses} \cup UNION {{r.id : r \in tx[q].bonusIns} : q \in Procs}

UsedPresentIDs ==
    {r.id : r \in presents} \cup UNION {{r.id : r \in tx[q].presentIns} : q \in Procs}

UsedHistoryIDs ==
    {r.id : r \in history} \cup UNION {{r.id : r \in tx[q].historyIns} : q \in Procs}

\* what the steps of login leave alone besides the tables
nonLoginVars == <<routeVars, tokenVars, cacheItems, granted, now, bonusLog, gachaVars,
                  pickVars>>

\* login lines 1484-1493: SELECT * FROM users WHERE id=?, outside the
\* transaction; the request time is the clock's
Login(p, u) ==
    /\ pc[p] = "idle"
    /\ req' = [req EXCEPT ![p] =
                  [handler |-> "login", userID |-> u, presentIDs |-> {},
                   requestAt |-> now, lastActivatedAt |-> lastActivated[u]]]
    /\ pc' = [pc EXCEPT ![p] = "lgSession"]
    /\ UNCHANGED <<storeVars, batch, snap, tx, res, sent, cacheRewards,
                   nonLoginVars>>

\* lines 1510-1542: Beginx; the user's sessions are marked deleted
\* (UPDATE user_sessions ... WHERE user_id=? AND deleted_at IS NULL) and a
\* new one is inserted; then the branch on isCompleteTodayLogin
LgSession(p) ==
    /\ pc[p] = "lgSession"
    /\ LET live == {r.id : r \in {x \in sessions : x.userID = req[p].userID}} IN
       /\ live \cap SessionsLockedFor(p) = {}
       /\ tx' = [tx EXCEPT
                   ![p].sessDel = live,
                   ![p].sessIns = {[id |-> GenerateIDs(UsedSessionIDs, 1)[1],
                                    userID |-> req[p].userID]}]
    /\ pc' = [pc EXCEPT ![p] =
                 IF IsCompleteTodayLogin(req[p].lastActivatedAt, req[p].requestAt)
                 THEN "lgSameDay" ELSE "lpUser"]
    /\ UNCHANGED <<storeVars, req, batch, snap, res, sent, cacheRewards,
                   nonLoginVars>>

\* lines 1542-1561: the user has logged in today already:
\* UPDATE users SET updated_at=?, last_activated_at=? WHERE id=?
LgSameDay(p) ==
    /\ pc[p] = "lgSameDay"
    /\ req[p].userID \notin UsersLockedFor(p)
    /\ tx' = [tx EXCEPT ![p].touch = TRUE]
    /\ pc' = [pc EXCEPT ![p] = "commit"]
    /\ UNCHANGED <<storeVars, req, batch, snap, res, sent, cacheRewards,
                   nonLoginVars>>

\* loginProcess lines 583-590: SELECT * FROM users WHERE id=?, the first
\* SELECT of the transaction
LpUser(p) ==
    /\ pc[p] = "lpUser"
    /\ snap' = [snap EXCEPT ![p] = TakeSnap(p)]
    /\ pc' = [pc EXCEPT ![p] = "lpBonus"]
    /\ UNCHANGED <<storeVars, req, batch, tx, res, sent, cacheRewards,
                   nonLoginVars>>

\* obtainLoginBonus lines 631-723: for every active bonus the user's row
\* (of the snapshot) is loaded or made, advanced unless the bonus is
\* exhausted, and written: INSERT INTO user_login_bonuses for a row made,
\* UPDATE user_login_bonuses ... WHERE id=? for a row loaded
LpBonus(p) ==
    /\ pc[p] = "lpBonus"
    /\ LET u == req[p].userID
           at == req[p].requestAt
           loginBonuses == ActiveBonuses(at)
           rows == {r \in snap[p].bonuses : r.userID = u}
           isInit == {i \in DOMAIN loginBonuses :
                        ~\E r \in rows : r.bonusID = loginBonuses[i].id}
           ubIDs == GenerateIDs(UsedBonusIDs, Cardinality(isInit))
           userBonus(i) ==
               IF i \in isInit
               THEN [id |-> ubIDs[Cardinality({j \in isInit : j <= i})],
                     userID |-> u, bonusID |-> loginBonuses[i].id,
                     seq |-> 0, loop |-> 1, updatedAt |-> at]
               ELSE ExistingBonus(rows, loginBonuses[i].id)
           progress == [i \in DOMAIN loginBonuses |->
                          [due |-> ~Exhausted(userBonus(i), loginBonuses[i]),
                           init |-> i \in isInit,
                           row |-> AdvanceBonus(userBonus(i), loginBonuses[i], at)]]
           IsDue(x) == x.due
           due == SelectSeq(progress, IsDue)
       IN
       /\ {due[k].row.id : k \in {j \in DOMAIN due : ~due[j].init}}
              \cap BonusesLockedFor(p) = {}
       /\ tx' = [tx EXCEPT
                   ![p].bonusIns = {due[k].row : k \in {j \in DOMAIN due : due[j].init}},
                   ![p].bonusUpd = {due[k].row : k \in {j \in DOMAIN due : ~due[j].init}}]
       /\ sent' = [sent EXCEPT ![p] = [k \in DOMAIN due |-> due[k].row]]
       /\ pc' = [pc EXCEPT ![p] = IF due = <<>> THEN "lpPresent" ELSE "lpRewards"]
    /\ UNCHANGED <<storeVars, req, batch, snap, res, cacheRewards, nonLoginVars>>

\* SELECT * FROM login_bonus_reward_masters WHERE (login_bonus_id=? AND
\* reward_sequence=?) OR ...
SelectRewards(keys) ==
    {m \in LoginBonusRewardMasters : <<m.bonusID, m.seq>> \in keys}

RewardOf(bonusID, seq) ==
    CHOOSE m \in LoginBonusRewardMasters : m.bonusID = bonusID /\ m.seq = seq

\* lines 726-781: the rewards due, from the cache and for the rest from the
\* table (and into the cache); one UserPresent{ItemType, ItemID, Amount}
\* per bonus sent
LpRewards(p) ==
    /\ pc[p] = "lpRewards"
    /\ LET keys == {<<sent[p][k].bonusID, sent[p][k].seq>> : k \in DOMAIN sent[p]}
           missingRewards == keys \ cacheRewards
           actualRewards == {<<m.bonusID, m.seq>> : m \in SelectRewards(missingRewards)}
           rewardMap == (keys \cap cacheRewards) \cup actualRewards
       IN
       /\ cacheRewards' = cacheRewards \cup actualRewards
       /\ IF keys # rewardMap
          THEN /\ Abort(p, ErrLoginBonusRewardNotFound)
               /\ UNCHANGED batch
          ELSE /\ batch' = [batch EXCEPT ![p] =
                              [k \in DOMAIN sent[p] |->
                                 LET rewardItem == RewardOf(sent[p][k].bonusID,
                                                            sent[p][k].seq)
                                 IN [id |-> 0, userID |-> 0,
                                     itemType |-> rewardItem.itemType,
                                     itemID |-> rewardItem.itemID,
                                     amount |-> rewardItem.amount,
                                     deleted |-> FALSE]]]
               /\ pc' = [pc EXCEPT ![p] = GrantPc(p, batch'[p], 1)]
               /\ UNCHANGED <<tx, snap, res>>
    /\ UNCHANGED <<storeVars, req, sent, nonLoginVars>>

\* LpPresent handing the coins of the rows it makes to the grant as well
LpPresentGranting(p) ==
    /\ pc[p] = "lpPresent"
    /\ LET u == req[p].userID
           normalPresents == ActivePresentAll(req[p].requestAt)
           receivedIDs == {h.presentAllID : h \in snap[p].history}
           IsNew(np) == np.id \notin receivedIDs
           new == SelectSeq(normalPresents, IsNew)
           pIDs == GenerateIDs(UsedPresentIDs, Len(new))
           phIDs == GenerateIDs(UsedHistoryIDs, Len(new))
       IN
       tx' = [tx EXCEPT
                ![p].presentIns =
                    {[id |-> pIDs[k], userID |-> u, itemType |-> new[k].itemType,
                      itemID |-> new[k].itemID, amount |-> new[k].amount,
                      deleted |-> FALSE] : k \in DOMAIN new},
                ![p].historyIns =
                    {[id |-> phIDs[k], userID |-> u, presentAllID |-> new[k].id]
                        : k \in DOMAIN new},
                ![p].coin = @ + CoinTotal(new)]
    /\ pc' = [pc EXCEPT ![p] = "lpTouch"]
    /\ UNCHANGED <<storeVars, req, batch, snap, res, sent, cacheRewards,
                   nonLoginVars>>

\* obtainPresent lines 796-893: every scheduled present active now and not
\* in the user's history (of the snapshot) gets a user_presents row and a
\* history row
LpPresent(p) ==
    /\ pc[p] = "lpPresent"
    /\ LET u == req[p].userID
           normalPresents == ActivePresentAll(req[p].requestAt)
           receivedIDs == {h.presentAllID : h \in snap[p].history}
           IsNew(np) == np.id \notin receivedIDs
           new == SelectSeq(normalPresents, IsNew)
           pIDs == GenerateIDs(UsedPresentIDs, Len(new))
           phIDs == GenerateIDs(UsedHistoryIDs, Len(new))
       IN
       tx' = [tx EXCEPT
                ![p].presentIns =
                    {[id |-> pIDs[k], userID |-> u, itemType |-> new[k].itemType,
                      itemID |-> new[k].itemID, amount |-> new[k].amount,
                      deleted |-> FALSE] : k \in DOMAIN new},
                ![p].historyIns =
                    {[id |-> phIDs[k], userID |-> u, presentAllID |-> new[k].id]
                        : k \in DOMAIN new}]
    /\ pc' = [pc EXCEPT ![p] = "lpTouch"]
    /\ UNCHANGED <<storeVars, req, batch, snap, res, sent, cacheRewards,
                   nonLoginVars>>

\* loginProcess lines 604-617:
\* UPDATE users SET updated_at=?, last_activated_at=? WHERE id=?
LpTouch(p) ==
    /\ pc[p] = "lpTouch"
    /\ req[p].userID \notin UsersLockedFor(p)
    /\ tx' = [tx EXCEPT ![p].touch = TRUE]
    /\ pc' = [pc EXCEPT ![p] = "commit"]
    /\ UNCHANGED <<storeVars, req, batch, snap, res, sent, cacheRewards,
                   nonLoginVars>>

\* half a day passes, up to a last time
TickUpTo(last) ==
    /\ now + HalfDay < last
    /\ now' = now + HalfDay
    /\ UNCHANGED <<routeVars, tokenVars, storeVars, procVars, cacheRewards, sent,
                   bonusLog, gachaVars, pickVars>>

\* half a day passes, within the days of the model
Tick == TickUpTo(MaxDays * DayLen)

\* ApplyPresents of a transaction that never ran the UPDATE of user_presents
ApplyPresentsUnmarked(t) == presents \cup t.presentIns

\* tx.Commit(): the writes of the transaction reach the tables together
ApplyPresents(t) ==
    {IF r.id \in t.marked THEN [r EXCEPT !.deleted = TRUE] ELSE r : r \in presents}
        \cup t.presentIns

\* `isu_coin = isu_coin + ?` (obtainItemsBatch) and `isu_coin = ?` (drawGacha)
ApplyCoin(t, u) ==
    [balance EXCEPT ![u] = IF t.coinSet # <<>> THEN t.coinSet[1] ELSE @ + t.coin]

\* ApplyItems without the UPDATE of the rows held already
ApplyItemsNoUpdate(t) == userItems \cup t.itemIns

ApplyItems(t) ==
    {IF \E x \in t.itemUpd : x.id = r.id
     THEN [r EXCEPT !.amount = (CHOOSE x \in t.itemUpd : x.id = r.id).amount]
     ELSE r : r \in userItems} \cup t.itemIns

\* the user_cards rows updated take their new columns, the inserted are added
ApplyCards(t) ==
    {IF \E x \in t.cardUpd : x.id = r.id
     THEN CHOOSE x \in t.cardUpd : x.id = r.id
     ELSE r : r \in userCards} \cup t.cards

ApplyBonuses(t) ==
    {IF \E x \in t.bonusUpd : x.id = r.id
     THEN CHOOSE x \in t.bonusUpd : x.id = r.id
     ELSE r : r \in userBonuses} \cup t.bonusIns

\* a run of loginProcess is committed: what it sent, and when
LogOf(p) ==
    IF req[p].handler = "login" /\
       ~IsCompleteTodayLogin(req[p].lastActivatedAt, req[p].requestAt)
    THEN [bonusLog EXCEPT ![req[p].userID] =
             Append(@, [at |-> req[p].requestAt, sent |-> sent[p]])]
    ELSE bonusLog

\* the price of one draw whatever the count
ConsumedCoinOnce(n) == 1000

\* consumedCoin := int64(gachaCount * 1000)
ConsumedCoin(n) == n * 1000

\* a transaction is committed: the coins its grants add (line 1025), and for
\* a draw the price of the presents it created (lines 1734, 1847)
CoinLogOf(p) ==
    [coinLog EXCEPT ![req[p].userID] =
        @ + tx[p].coin
          - (IF req[p].handler = "drawGacha"
             THEN ConsumedCoin(Cardinality(tx[p].presentIns)) ELSE 0)]

\* receivePresent lines 2015-2022, login lines 1555-1558 and 1574-1577,
\* drawGacha lines 1853-1856, addExpToCard lines 2255-2258
Commit(p) ==
    /\ pc[p] = "commit"
    /\ presents' = ApplyPresents(tx[p])
    /\ balance' = ApplyCoin(tx[p], req[p].userID)
    /\ userCards' = ApplyCards(tx[p])
    /\ userItems' = ApplyItems(tx[p])
    /\ userBonuses' = ApplyBonuses(tx[p])
    /\ lastActivated' = IF tx[p].touch
                        THEN [lastActivated EXCEPT ![req[p].userID] = req[p].requestAt]
                        ELSE lastActivated
    /\ sessions' = {r \in sessions : r.id \notin tx[p].sessDel} \cup tx[p].sessIns
    /\ history' = history \cup tx[p].historyIns
    /\ bonusLog' = LogOf(p)
    /\ granted' = [i \in PoolIDs |->
                      IF i \in tx[p].marked THEN granted[i] + 1 ELSE granted[i]]
    /\ tx' = [tx EXCEPT ![p] = EmptyTx]
    /\ pc' = [pc EXCEPT ![p] = "done"]
    /\ res' = [res EXCEPT ![p] = Ok]
    /\ snap' = [snap EXCEPT ![p] = NoSnap]
    /\ coinLog' = CoinLogOf(p)
    /\ UNCHANGED <<cacheItems, req, batch, routeVars, tokenVars, cacheRewards,
                   now, sent, cacheGacha, lastGetReward, muHeld, pickVars>>

\* a statement of the transaction, or its Commit, returns an error (the
\* request's context is cancelled, the connection is lost): the handler
\* answers 500 and the transaction is rolled back
StoreError(p) ==
    /\ pc[p] \in InTxPcs
    /\ Abort(p, ErrStore)
    /\ UNCHANGED <<storeVars, cacheItems, req, batch, granted, nonGrantVars>>

\* the response is written; the goroutine serves its next request
Finish(p) ==
    /\ pc[p] = "done"
    /\ pc' = [pc EXCEPT ![p] = "idle"]
    /\ req' = [req EXCEPT ![p] = NoReq]
    /\ batch' = [batch EXCEPT ![p] = <<>>]
    /\ res' = [res EXCEPT ![p] = None]
    /\ sent' = [sent EXCEPT ![p] = <<>>]
    /\ UNCHANGED <<storeVars, cacheItems, snap, tx, granted, routeVars, tokenVars,
                   cacheRewards, now, bonusLog, gachaVars, pickVars>>

\* NumPresents presents of the pool are pending, nothing is granted yet
InitPending(pool) ==
    /\ RouteIdle
    /\ TokenIdle
    /\ ProcsIdle
    /\ balance = [u \in UserIDs |-> 0]
    /\ presents \in {S \in SUBSET pool : Cardinality(S) = NumPresents}
    /\ userCards = {}
    /\ userItems = {}
    /\ userBonuses = {}
    /\ lastActivated = [u \in UserIDs |-> 0]
    /\ sessions = {}
    /\ history = {}

\* the presents of the pool whose reward obtainItemsBatch can grant
GrantablePool ==
    {r \in PresentPool :
        IsCoin(r) \/ \E m \in ItemMasters : m.id = r.itemID /\ m.itemType = r.itemType}

InitReceive == InitPending(GrantablePool)

InitReceiveSeq == InitPending(PresentPool \cup OddPresents)

ServeReceive(P) ==
    \/ \E p \in P : \E u \in UserIDs : \E ids \in SUBSET PoolIDs :
          ReceivePresent(p, u, ids)
    \/ \E p \in P : RpMark(p)
    \/ \E p \in P : GrantCoin(p)
    \/ \E p \in P : GrantCards(p)
    \/ \E p \in P : GrantItemsSelect(p)
    \/ \E p \in P : GrantItemsWrite(p)
    \/ \E p \in P : Commit(p)
    \/ \E p \in P : StoreError(p)
    \/ \E p \in P : Finish(p)

\* requests served concurrently
NextReceive == ServeReceive(Procs)

SpecReceive == InitReceive /\ [][NextReceive]_vars

\* requests served one after the other
SeqProcs == {1}

NextReceiveSeq == ServeReceive(SeqProcs)

SpecReceiveSeq == InitReceiveSeq /\ [][NextReceiveSeq]_vars

\* C3: in any sequence of receivePresent calls each present's reward is
\* granted at most once, and a call that names a present already received
\* grants nothing for it: no call past its UPDATE of user_presents holds a
\* present whose reward has been granted.
C3_ReceivedOnce ==
    /\ \A i \in PoolIDs : granted[i] <= 1
    /\ \A p \in Procs : pc[p] \in InTxPcs \ {"rpMark"} =>
           \A k \in DOMAIN batch[p] : granted[batch[p][k].id] = 0

\* a call that named a present received before has returned success, and its
\* batch did not hold that present
C3_Witness ==
    \E p \in Procs :
        /\ pc[p] = "done" /\ res[p] = Ok
        /\ \E i \in req[p].presentIDs :
              /\ granted[i] = 1
              /\ \A k \in DOMAIN batch[p] : batch[p][k].id # i

\* C4: receivePresent calls that run concurrently and name the same pending
\* present grant its reward at most once.
C4_ConcurrentReceivedOnce == \A i \in PoolIDs : granted[i] < 2

\* the effects of the batch of request p are all in the tables after the step
BatchApplied(p) ==
    LET b == batch[p]
        u == req[p].userID
    IN
    /\ \A k \in DOMAIN b : \E r \in presents' : r.id = b[k].id /\ r.deleted
    /\ balance'[u] = balance[u] + CoinTotal(b)
    /\ Cardinality(userCards' \ userCards) = SumAmount(CardItems(b))
    /\ \A c \in userCards' \ userCards : c.userID = u
    /\ \A i \in MaterialIDs(b) :
          \E r \in userItems' :
              /\ r.userID = u /\ r.itemID = i /\ r.amount >= MaterialAmount(b, i)
              /\ \/ r \in tx[p].itemIns
                 \/ \E x \in tx[p].itemUpd : x.id = r.id /\ x.amount = r.amount

\* C5: a grant made by obtainItemsBatch inside its caller's transaction
\* reaches the tables all at once or not at all: the tables change only in
\* the step that commits a request, every effect of its batch (presents
\* marked, coins, cards, materials) is then in them, and a request that ends
\* on an error leaves them as they were.
C5_AllOrNothing ==
    [][ /\ storeVars' # storeVars =>
              \E p \in Procs : /\ pc[p] = "commit" /\ pc'[p] = "done"
                               /\ res'[p] = Ok
                               /\ BatchApplied(p)
        /\ \A p \in Procs :
              (pc[p] # "done" /\ pc'[p] = "done" /\ res'[p] # Ok)
                  => storeVars' = storeVars
      ]_vars

\* a batch of coins, a card and a material has been committed
C5_Witness ==
    \E p \in Procs :
        /\ pc[p] = "done" /\ res[p] = Ok
        /\ CoinTotal(batch[p]) > 0
        /\ CardItems(batch[p]) # <<>>
        /\ MaterialIDs(batch[p]) # {}
        /\ balance[req[p].userID] >= CoinTotal(batch[p])
        /\ userCards # {}
        /\ userItems # {}

\* C6: user_items holds at most one row per (user, item id), in every
\* reachable state, grant transactions running concurrently included (here:
\* as long as no present has been granted twice).
C6_OneRowPerUserItem ==
    (\A i \in PoolIDs : granted[i] <= 1) =>
        \A r1, r2 \in userItems :
            (r1.userID = r2.userID /\ r1.itemID = r2.itemID) => r1 = r2

(***************************************************************************)
(* SpecLoginSeq: logins served one after the other while the days pass.    *)
(* The users exist, were last active on the eve of the first day, and hold *)
(* no streak row (the bonuses began after they were made).                 *)
(***************************************************************************)
InitLogin ==
    /\ RouteIdle
    /\ TokenIdle
    /\ ProcsIdle
    /\ balance = [u \in UserIDs |-> 0]
    /\ presents = {}
    /\ userCards = {}
    /\ userItems = {}
    /\ userBonuses = {}
    /\ lastActivated = [u \in UserIDs |-> -DayLen]
    /\ sessions = {}
    /\ history = {}

\* the user who logs in; the logins of another user touch none of its rows
LoginUsers == {FirstUser}

LoginSteps(P) ==
    \/ \E p \in P : \E u \in LoginUsers : Login(p, u)
    \/ \E p \in P : LgSession(p)
    \/ \E p \in P : LgSameDay(p)
    \/ \E p \in P : LpUser(p)
    \/ \E p \in P : LpBonus(p)
    \/ \E p \in P : LpRewards(p)
    \/ \E p \in P : GrantCoin(p)
    \/ \E p \in P : GrantCards(p)
    \/ \E p \in P : GrantItemsSelect(p)
    \/ \E p \in P : GrantItemsWrite(p)
    \/ \E p \in P : LpPresent(p)
    \/ \E p \in P : LpTouch(p)
    \/ \E p \in P : Commit(p)
    \/ \E p \in P : StoreError(p)
    \/ \E p \in P : Finish(p)

\* the requests, and the clock
ServeLogin(P) == LoginSteps(P) \/ Tick

NextLoginSeq == ServeLogin(SeqProcs)

SpecLoginSeq == InitLogin /\ [][NextLoginSeq]_vars

\* the bonus is active at every time of the model
AlwaysActive(b) == b.startAt <= 0 /\ b.endAt >= MaxDays * DayLen

\* the rewards of the bonuses the committed runs of loginProcess sent, as
\* the entries obtainItemsBatch was handed, in order
RECURSIVE RewardsOfLog(_)
RewardsOfLog(log) ==
    IF log = <<>> THEN <<>>
    ELSE [k \in DOMAIN Head(log).sent |->
             RewardOf(Head(log).sent[k].bonusID, Head(log).sent[k].seq)]
         \o RewardsOfLog(Tail(log))

\* the user's coins, cards and materials are those rewards, no more, no less
HoldsRewardsOfLog(u) ==
    LET rewards == RewardsOfLog(bonusLog[u]) IN
    /\ balance[u] = CoinTotal(rewards)
    /\ Cardinality({c \in userCards : c.userID = u}) = SumAmount(CardItems(rewards))
    /\ \A i \in {m.id : m \in ItemMasters} :
          LET held == {r \in userItems : r.userID = u /\ r.itemID = i} IN
          IF MaterialAmount(rewards, i) = 0 THEN held = {}
          ELSE \E r \in held : held = {r} /\ r.amount = MaterialAmount(rewards, i)

\* the entries of bonus b in what the i-th run sent
SentOf(u, i, b) ==
    {bonusLog[u][i].sent[k] : k \in {j \in DOMAIN bonusLog[u][i].sent :
                                        bonusLog[u][i].sent[j].bonusID = b.id}}

\* C9: for a looping login bonus of C >= 1 columns and a user with no prior
\* state, the i-th login day grants sequence ((i-1) mod C) + 1 with loop
\* count 1 + (i-1) div C: sequences 1,2,...,C,1,2,... in that order, the loop
\* count beginning at 1 and rising by one at each wrap; the streak row holds
\* the last of them and the user holds the rewards of exactly these
\* sequences.
C9_LoopingSequence ==
    \A u \in UserIDs : \A b \in LoginBonusMasters :
        (b.looped /\ b.columnCount >= 1 /\ AlwaysActive(b)) =>
            LET n == Len(bonusLog[u])
                SeqAt(i) == ((i - 1) % b.columnCount) + 1
                LoopAt(i) == 1 + ((i - 1) \div b.columnCount)
            IN
            /\ \A i \in 1..n :
                  \E e \in SentOf(u, i, b) :
                      /\ SentOf(u, i, b) = {e}
                      /\ e.seq = SeqAt(i) /\ e.loop = LoopAt(i)
            /\ \A r \in userBonuses :
                  (r.userID = u /\ r.bonusID = b.id) =>
                      n >= 1 /\ r.seq = SeqAt(n) /\ r.loop = LoopAt(n)
            /\ n >= 1 => \E r \in userBonuses : r.userID = u /\ r.bonusID = b.id
            /\ HoldsRewardsOfLog(u)

\* logins on C + 1 days in a row have been committed, the last one wrapped
\* to sequence 1 in loop 2
C9_Witness ==
    \E u \in UserIDs : \E b \in LoginBonusMasters :
        /\ b.looped /\ AlwaysActive(b)
        /\ Len(bonusLog[u]) = b.columnCount + 1
        /\ \A i \in 1..b.columnCount :
              LocalDay(bonusLog[u][i + 1].at) = LocalDay(bonusLog[u][i].at) + 1
        /\ \E r \in userBonuses :
              r.userID = u /\ r.bonusID = b.id /\ r.seq = 1 /\ r.loop = 2

\* C10: for a login bonus that does not loop, once the user's last reward
\* sequence equals the column count C, every later login leaves the streak
\* row as the C-th login wrote it (sequence C, loop count 1, its updated_at),
\* sends no entry of the bonus, and grants no reward for it: the user holds
\* the rewards of the entries sent, and no more.
C10_ExhaustedFrozen ==
    \A u \in UserIDs : \A b \in LoginBonusMasters :
        (~b.looped /\ b.columnCount >= 1 /\ AlwaysActive(b)) =>
            LET n == Len(bonusLog[u])
                C == b.columnCount
            IN
            /\ \A i \in 1..n : i > C => SentOf(u, i, b) = {}
            /\ n >= C =>
                  \E r \in userBonuses :
                      /\ \A x \in userBonuses :
                            (x.userID = u /\ x.bonusID = b.id) => x = r
                      /\ r.userID = u /\ r.bonusID = b.id
                      /\ r.seq = C /\ r.loop = 1
                      /\ r.updatedAt = bonusLog[u][C].at
            /\ HoldsRewardsOfLog(u)

\* a login after the one that exhausted the bonus has been committed, on a
\* later day
C10_Witness ==
    \E u \in UserIDs : \E b \in LoginBonusMasters :
        /\ ~b.looped /\ AlwaysActive(b)
        /\ Len(bonusLog[u]) > b.columnCount
        /\ bonusLog[u][Len(bonusLog[u])].at > bonusLog[u][b.columnCount].at
        /\ \E r \in userBonuses :
              r.userID = u /\ r.bonusID = b.id /\ r.seq = b.columnCount

(***************************************************************************)
(* SpecLogin: the logins of one user served concurrently.                  *)
(***************************************************************************)
\* The user has made the first login of the model, at time 0, and has asked
\* for nothing since: its two streak rows, the scheduled present still
\* pending, its history row, a live session; a day has passed.
FirstDayBonuses ==
    LET loginBonuses == ActiveBonuses(0) IN
    {AdvanceBonus([id |-> i, userID |-> FirstUser,
                   bonusID |-> loginBonuses[i].id, seq |-> 0, loop |-> 1,
                   updatedAt |-> 0], loginBonuses[i], 0) : i \in DOMAIN loginBonuses}

InitLoggedInAt(t) ==
    /\ RouteIdle
    /\ TokenIdle
    /\ GachaIdle
    /\ PickIdle
    /\ cacheItems = {}
    /\ pc = [p \in Procs |-> "idle"]
    /\ req = [p \in Procs |-> NoReq]
    /\ batch = [p \in Procs |-> <<>>]
    /\ snap = [p \in Procs |-> NoSnap]
    /\ tx = [p \in Procs |-> EmptyTx]
    /\ res = [p \in Procs |-> None]
    /\ granted = [i \in PoolIDs |-> 0]
    /\ sent = [p \in Procs |-> <<>>]
    /\ now = t
    /\ cacheRewards = {<<r.bonusID, r.seq>> : r \in FirstDayBonuses}
    /\ bonusLog = [u \in UserIDs |->
                     IF u = FirstUser
                     THEN <<[at |-> 0, sent |-> SortByID(FirstDayBonuses)]>>
                     ELSE <<>>]
    /\ balance = [u \in UserIDs |->
                    IF u = FirstUser
                    THEN CoinTotal(RewardsOfLog(bonusLog[FirstUser])) ELSE 0]
    /\ presents = {[id |-> m.id, userID |-> FirstUser, itemType |-> m.itemType,
                    itemID |-> m.itemID, amount |-> m.amount, deleted |-> FALSE]
                       : m \in {x \in PresentAllMasters : x.startAt <= 0}}
    /\ history = {[id |-> m.id, userID |-> FirstUser, presentAllID |-> m.id]
                       : m \in {x \in PresentAllMasters : x.startAt <= 0}}
    /\ userCards = {}
    /\ userItems = {}
    /\ userBonuses = FirstDayBonuses
    /\ lastActivated = [u \in UserIDs |-> IF u = FirstUser THEN 0 ELSE -DayLen]
    /\ sessions = {[id |-> 1, userID |-> FirstUser]}

\* a day has passed since the first login
InitLoggedIn == InitLoggedInAt(DayLen)

\* the user is new to the bonuses, or logged in the day before
InitLoginDay == InitLogin \/ InitLoggedIn

\* logins within one day, served concurrently
NextLogin == LoginSteps(Procs)

SpecLogin == InitLoginDay /\ [][NextLogin]_vars

\* user_login_bonuses holds one row per (user, bonus)
OneRowPerUserBonus ==
    \A r1, r2 \in userBonuses :
        (r1.userID = r2.userID /\ r1.bonusID = r2.bonusID) => r1 = r2

\* C11: whatever the order and the interleaving of the login requests of one
\* user whose request times fall on one calendar day, the streak of an active
\* bonus advances at most once on that day and its reward is granted at most
\* once: no two committed runs of loginProcess of one day both sent the bonus
\* (here: as long as the user holds one streak row per bonus).
C11_OncePerDay ==
    OneRowPerUserBonus =>
        \A u \in UserIDs : \A b \in LoginBonusMasters :
            \A i, j \in DOMAIN bonusLog[u] :
                (i < j /\ LocalDay(bonusLog[u][i].at) = LocalDay(bonusLog[u][j].at))
                    => ~(SentOf(u, i, b) # {} /\ SentOf(u, j, b) # {})

NewPresents(p) == SortByID(tx[p].presentIns)

\* a login that made rows for scheduled presents is committed in the step
CommitsNewPresents(p) ==
    /\ pc[p] = "commit" /\ pc'[p] = "done" /\ res'[p] = Ok
    /\ req[p].handler = "login"
    /\ tx[p].presentIns # {}

\* C13 as stated: when obtainPresent makes new user_presents rows, these
\* are handed to obtainItemsBatch in the same transaction, and the balance
\* the login commits holds them.
C13_NewPresentsGranted ==
    [][\A p \in Procs :
          CommitsNewPresents(p) =>
              balance'[req[p].userID] =
                  balance[req[p].userID] + SumAmount(SelectSeq(batch[p], IsCoin))
                      + SumAmount(SelectSeq(NewPresents(p), IsCoin))]_vars

\* C13, amended: when obtainPresent makes new user_presents rows, it hands
\* them to no grant: the login commits them pending (not received), its
\* grant is that of the login bonus rewards alone (balance, cards and
\* materials hold nothing of the new presents), and the rows wait for
\* receivePresent.
C13_NewPresentsPending ==
    [][\A p \in Procs :
          CommitsNewPresents(p) =>
              /\ \A r \in tx[p].presentIns : r \in presents' /\ ~r.deleted
              /\ balance'[req[p].userID] =
                     balance[req[p].userID] + SumAmount(SelectSeq(batch[p], IsCoin))
              /\ Cardinality(userCards' \ userCards) = SumAmount(CardItems(batch[p]))
              /\ \A i \in {r.itemID : r \in tx[p].presentIns} \ MaterialIDs(batch[p]) :
                    {x \in userItems' : x.itemID = i} = {x \in userItems : x.itemID = i}
      ]_vars

\* a login that made the row of a scheduled present of coins has been
\* committed: the row is pending and the balance is that of the bonuses
C13_Witness ==
    \E p \in Procs :
        /\ pc[p] = "done" /\ res[p] = Ok /\ req[p].handler = "login"
        /\ \E r \in presents :
              /\ r.userID = req[p].userID /\ ~r.deleted /\ IsCoin(r)
              /\ balance[req[p].userID] = SumAmount(SelectSeq(batch[p], IsCoin))
        /\ \E h \in history : h.userID = req[p].userID
        /\ Len(bonusLog[req[p].userID]) = 1

\* request p named present i of its user, and i was marked received before
\* the request read user_presents (requests served one after the other)
NamedReceived(p, i) ==
    /\ i \in req[p].presentIDs
    /\ \A k \in DOMAIN batch[p] : batch[p][k].id # i
    /\ \E r \in presents : r.id = i /\ r.deleted /\ r.userID = req[p].userID

\* C14: a receivePresent call that names a present already marked received
\* fails as a whole and grants nothing: it does not end in success with the
\* other presents it named granted.
C14_ReceivedIsFatal ==
    \A p \in Procs :
        (/\ pc[p] = "done" /\ req[p].handler = "receivePresent"
         /\ \E k \in DOMAIN batch[p] : batch[p][k].itemType \in 1..4
         /\ \E i \in PoolIDs : NamedReceived(p, i))
            => res[p] # Ok

\* C15: receivePresent marks received and grants only presents addressed to
\* the calling user: the presents a committed request marked and granted
\* are all owned by the user who made the request.
C15_OwnPresentsOnly ==
    \A p \in Procs :
        (req[p].handler = "receivePresent" /\ pc[p] = "done" /\ res[p] = Ok)
            => \A k \in DOMAIN batch[p] : batch[p][k].userID = req[p].userID

\* C17: a grant batch that holds an entry whose item kind is none of 1, 2,
\* 3, 4 fails as a whole: the request that handed it to obtainItemsBatch
\* does not end in success.
C17_UnknownKindFails ==
    \A p \in Procs :
        (pc[p] = "done" /\ \E k \in DOMAIN batch[p] : batch[p][k].itemType \notin 1..4)
            => res[p] # Ok

\* present r is pending before the step and received after it
BecomesReceived(r) ==
    ~r.deleted /\ \E r2 \in presents' : r2.id = r.id /\ r2.deleted

\* the step puts the reward of present r into the tables
RewardApplied(r) ==
    \/ IsCoin(r) /\ \E u \in UserIDs : balance'[u] >= balance[u] + r.amount
    \/ IsCard(r) /\
          Cardinality({c \in userCards' \ userCards : c.cardID = r.itemID}) >= r.amount
    \/ IsMaterial(r) /\
          \E x \in userItems' \ userItems : x.itemID = r.itemID /\ x.amount >= r.amount

\* C16: a present only moves from pending to received, and it is marked
\* received in a committed state exactly when its reward has been applied:
\* no step makes a received present pending again (or drops its row), every
\* step that marks a present received puts its reward into the tables, and
\* every step that changes coins, cards or materials marks a present.
C16_PendingToReceived ==
    [][ /\ \A r \in presents :
              r.deleted => \E r2 \in presents' : r2.id = r.id /\ r2.deleted
        /\ \A r \in presents : BecomesReceived(r) => RewardApplied(r)
        /\ <<balance, userCards, userItems>>' # <<balance, userCards, userItems>>
              => \E r \in presents : BecomesReceived(r)
      ]_vars

\* the entry names a card or a material that item_masters does not hold as
\* that kind
NoMasterOf(r) ==
    \/ IsCard(r) /\ ~\E m \in ItemMasters : m.id = r.itemID /\ m.itemType = 2
    \/ IsMaterial(r) /\
          ~\E m \in ItemMasters : m.id = r.itemID /\ m.itemType \in {3, 4}

\* C18: a grant batch that names a card or material item id with no
\* item-master row of that kind fails with ErrItemNotFound and nothing of it
\* is applied: its request never reaches the commit and never ends in
\* success, and the step in which obtainItemsBatch returns ErrItemNotFound
\* leaves the tables unchanged and the transaction rolled back, the coins it
\* had added included.
C18_ItemNotFoundFails ==
    [][\A p \in Procs :
          /\ (\E k \in DOMAIN batch'[p] : NoMasterOf(batch'[p][k]))
                => /\ pc'[p] # "commit"
                   /\ pc'[p] = "done" => res'[p] \in {ErrItemNotFound, ErrStore}
          /\ (pc[p] # "done" /\ pc'[p] = "done" /\ res'[p] = ErrItemNotFound)
                => /\ \E k \in DOMAIN batch[p] : NoMasterOf(batch[p][k])
                   /\ storeVars' = storeVars
                   /\ tx'[p] = EmptyTx
      ]_vars

\* a request whose batch held coins and a material with no master of its
\* kind has ended with ErrItemNotFound; the user's balance has none of the
\* coins
C18_Witness ==
    \E p \in Procs :
        /\ pc[p] = "done" /\ res[p] = ErrItemNotFound
        /\ CoinTotal(batch[p]) > 0
        /\ \E k \in DOMAIN batch[p] : IsMaterial(batch[p][k]) /\ NoMasterOf(batch[p][k])
        /\ balance[req[p].userID] = 0
        /\ tx[p] = EmptyTx

\* the step commits request p with success
CommitsOk(p) == pc[p] = "commit" /\ pc'[p] = "done" /\ res'[p] = Ok

\* C19: after a successful grant, for each material item id of the batch the
\* user's single user_items row of that item holds the amount it held before
\* the grant (0 if there was no row) plus the sum of the amounts of all
\* entries of the batch with that item id.
C19_MaterialSum ==
    [][\A p \in Procs :
          CommitsOk(p) =>
              \A i \in MaterialIDs(batch[p]) :
                  LET u == req[p].userID
                      before == {r \in userItems : r.userID = u /\ r.itemID = i}
                      after == {r \in userItems' : r.userID = u /\ r.itemID = i}
                      held == IF before = {} THEN 0
                              ELSE (CHOOSE r \in before : TRUE).amount
                  IN /\ Cardinality(before) <= 1
                     /\ \E r \in after :
                           /\ after = {r}
                           /\ r.amount = held + MaterialAmount(batch[p], i)
      ]_vars

\* one call has granted two presents of the same material, of amounts 2 and
\* 3: the user holds one row of it, of amount 5
C19_Witness ==
    \E p \in Procs :
        /\ pc[p] = "done" /\ res[p] = Ok
        /\ \E j, k \in DOMAIN batch[p] :
              /\ j # k /\ IsMaterial(batch[p][j]) /\ IsMaterial(batch[p][k])
              /\ batch[p][j].itemID = batch[p][k].itemID
              /\ \E r \in userItems :
                    /\ r.userID = req[p].userID /\ r.itemID = batch[p][j].itemID
                    /\ r.amount = batch[p][j].amount + batch[p][k].amount
                    /\ \A x \in userItems : x.itemID = r.itemID => x = r

\* C20: after a successful grant the user's balance is its value before the
\* grant plus the sum of the amounts of all currency entries of the batch,
\* and the balance of every other user is unchanged.
C20_BalanceSum ==
    [][\A p \in Procs :
          CommitsOk(p) =>
              /\ balance'[req[p].userID] =
                     balance[req[p].userID] + SumAmount(SelectSeq(batch[p], IsCoin))
              /\ \A v \in UserIDs \ {req[p].userID} : balance'[v] = balance[v]
      ]_vars

\* a grant of two currency entries has been committed while another request
\* had committed coins of its own: the balance holds both
C20_Witness ==
    \E p \in Procs :
        /\ pc[p] = "done" /\ res[p] = Ok
        /\ Len(SelectSeq(batch[p], IsCoin)) >= 2
        /\ balance[req[p].userID] > SumAmount(SelectSeq(batch[p], IsCoin))

\* C21: a successful grant makes, for each card entry of the batch, exactly
\* `amount` new user_cards rows of the user, each of level 1, total
\* experience 0 and the production rate of the card's item master; the
\* number of new rows is the sum of the card entries' amounts.
C21_CardRows ==
    [][\A p \in Procs :
          CommitsOk(p) =>
              LET cs == CardItems(batch[p])
                  new == userCards' \ userCards
                  OfCard(id) == SelectSeq(cs, LAMBDA r : r.itemID = id)
              IN /\ Cardinality(new) = SumAmount(cs)
                 /\ \A c \in new :
                       /\ c.userID = req[p].userID
                       /\ c.level = 1 /\ c.totalExp = 0
                       /\ \E m \in ItemMasters :
                             /\ m.id = c.cardID /\ m.itemType = 2
                             /\ c.amountPerSec = m.amountPerSec
                 /\ \A k \in DOMAIN cs :
                       Cardinality({c \in new : c.cardID = cs[k].itemID})
                           = SumAmount(OfCard(cs[k].itemID))
                 /\ userCards \subseteq userCards'
      ]_vars

\* a present of two cards of one item has been granted: the user holds two
\* rows of that card
C21_Witness ==
    \E p \in Procs :
        /\ pc[p] = "done" /\ res[p] = Ok
        /\ \E k \in DOMAIN batch[p] :
              /\ IsCard(batch[p][k]) /\ batch[p][k].amount = 2
              /\ Cardinality({c \in userCards :
                                 /\ c.userID = req[p].userID
                                 /\ c.cardID = batch[p][k].itemID
                                 /\ c.level = 1 /\ c.totalExp = 0}) = 2

(***************************************************************************)
(* SpecPick: one run of the draw loop of drawGacha over a list of weights  *)
(* whose sum is positive, for one value of rand.Int63n(sum).               *)
(***************************************************************************)
MaxItems == 3
MaxWeight == 3

\* the sum of the weights with every item counted once
WeightSumCount(pool, k) == k

RECURSIVE WeightSum(_, _)
\* sum += int64(item.Weight) over the first k items of the list
WeightSum(pool, k) == IF k = 0 THEN 0 ELSE WeightSum(pool, k - 1) + pool[k]

\* the lists of weights the loop is run on: the handler returns before the
\* loop when the sum is 0
PickPools ==
    {w \in UNION {[1..n -> 0..MaxWeight] : n \in 1..MaxItems} : WeightSum(w, Len(w)) > 0}

RECURSIVE DrawFromInclusive(_, _, _, _)
\* the loop with `random <= int64(boundary)` as its test
DrawFromInclusive(pool, random, i, boundary) ==
    IF i > Len(pool) THEN <<>>
    ELSE LET b == boundary + pool[i]
         IN IF random <= b THEN <<i>> ELSE DrawFromInclusive(pool, random, i + 1, b)

RECURSIVE DrawFrom(_, _, _, _)
\* for _, v := range gachaItemList { boundary += v.Weight;
\*   if random < int64(boundary) { result = append(result, v); break } }
\* from item i on with the boundary reached so far: what is appended
DrawFrom(pool, random, i, boundary) ==
    IF i > Len(pool) THEN <<>>
    ELSE LET b == boundary + pool[i]
         IN IF random < b THEN <<i>> ELSE DrawFrom(pool, random, i + 1, b)

InitPick ==
    /\ RouteIdle
    /\ TokenIdle
    /\ StoreIdle
    /\ GachaIdle
    /\ cacheItems = {}
    /\ pc = [p \in Procs |-> "idle"]
    /\ req = [p \in Procs |-> NoReq]
    /\ batch = [p \in Procs |-> <<>>]
    /\ snap = [p \in Procs |-> NoSnap]
    /\ tx = [p \in Procs |-> EmptyTx]
    /\ res = [p \in Procs |-> None]
    /\ granted = [i \in PoolIDs |-> 0]
    /\ cacheRewards = {}
    /\ now = 0
    /\ sent = [p \in Procs |-> <<>>]
    /\ bonusLog = [u \in UserIDs |-> <<>>]
    /\ pkPool \in PickPools
    /\ pkRandom \in 0..(WeightSum(pkPool, Len(pkPool)) - 1)
    /\ pkState = "input"
    /\ pkResult = <<>>

nonPickVars == <<routeVars, tokenVars, storeVars, procVars, loginVars, gachaVars>>

\* boundary := 0, then the loop over the list
DrawLoop ==
    /\ pkState = "input"
    /\ pkResult' = DrawFrom(pkPool, pkRandom, 1, 0)
    /\ pkState' = "drawn"
    /\ UNCHANGED <<pkPool, pkRandom, nonPickVars>>

\* the next value of random := rand.Int63n(sum), over the same list
PickNextRandom ==
    /\ pkState = "drawn"
    /\ pkRandom' \in 0..(WeightSum(pkPool, Len(pkPool)) - 1)
    /\ pkState' = "input"
    /\ pkResult' = <<>>
    /\ UNCHANGED <<pkPool, nonPickVars>>

NextPick == DrawLoop \/ PickNextRandom

SpecPick == InitPick /\ [][NextPick]_vars

\* C22: over a list of non-negative weights with sum S > 0 and any r in
\* [0, S), the draw loop appends exactly one item, the first in catalog order
\* whose cumulative weight strictly exceeds r; and the number of values r
\* that select an item equals its weight.
C22_FirstExceeding ==
    pkState = "drawn" =>
        /\ Len(pkResult) = 1
        /\ LET k == pkResult[1]
           IN /\ k \in DOMAIN pkPool
              /\ WeightSum(pkPool, k) > pkRandom
              /\ \A j \in 1..(k - 1) : WeightSum(pkPool, j) <= pkRandom
        /\ \A k \in DOMAIN pkPool :
              Cardinality({r \in 0..(WeightSum(pkPool, Len(pkPool)) - 1) :
                              DrawFrom(pkPool, r, 1, 0) = <<k>>}) = pkPool[k]

\* an item of weight 0 is passed over for the one after it
C22_Witness ==
    /\ pkState = "drawn"
    /\ Len(pkPool) = 3
    /\ pkPool[1] = 0
    /\ pkPool[2] = 2
    /\ pkRandom = 1
    /\ pkResult = <<2>>

(***************************************************************************)
(* SpecDraw: drawGacha, reward and initializeOne, served one after the     *)
(* other, with the token issuance of listGacha.                            *)
(***************************************************************************)
\* gacha_masters: three gachas open at every request time of the model
GachaMasters ==
    {[id |-> g, startAt |-> 0, endAt |-> 1000] : g \in {1, 2, 3}}

\* gacha_item_masters: gacha 1 holds coins of weight 0 and a material of
\* weight 1, the only item of gacha 2 has weight 0, gacha 3 has no item
GachaItemMasters ==
    { [id |-> 1, gachaID |-> 1, itemType |-> 1, itemID |-> 1, amount |-> 50, weight |-> 0],
      [id |-> 2, gachaID |-> 1, itemType |-> 3, itemID |-> 17, amount |-> 1, weight |-> 1],
      [id |-> 3, gachaID |-> 2, itemType |-> 1, itemID |-> 1, amount |-> 50, weight |-> 0] }

\* the gacha ids of the requests: the three gachas and one that is unknown
GachaIDs == {1, 2, 3, 4}

\* gachaCount != 1 && gachaCount != 10 is answered 400 before the token check
DrawCounts == {1, 10}

\* SELECT * FROM gacha_item_masters WHERE gacha_id=? ORDER BY id ASC
GachaItemList(g) == SortByID({m \in GachaItemMasters : m.gachaID = g})

\* lines 1779-1783: sum over `for _, item := range gachaItemList`
SumOfWeights(items) ==
    WeightSum([i \in DOMAIN items |-> items[i].weight], Len(items))

\* lines 149-159: what GetGachaItems returns; found only when both maps hold
\* the gacha id
GetGachaItems(g) ==
    IF g \notin DOMAIN cacheGacha.gachaItems
    THEN [items |-> <<>>, sum |-> 0, cached |-> FALSE]
    ELSE IF g \notin DOMAIN cacheGacha.gachaWeightSums
    THEN [items |-> <<>>, sum |-> 0, cached |-> FALSE]
    ELSE [items |-> cacheGacha.gachaItems[g],
          sum |-> cacheGacha.gachaWeightSums[g], cached |-> TRUE]

\* SetGachaItems with weightSum left at its zero value
SetGachaItemsOnly(g, items) ==
    [cacheGacha EXCEPT !.gachaItems = (g :> items) @@ @,
                       !.gachaWeightSums = (g :> 0) @@ @]

\* lines 167-173: the maps after SetGachaItems: the list, and the sum of its
\* weights
SetGachaItems(g, items) ==
    [gachaItems |-> (g :> items) @@ cacheGacha.gachaItems,
     gachaWeightSums |-> (g :> SumOfWeights(items)) @@ cacheGacha.gachaWeightSums]

RECURSIVE DrawResult(_, _)
\* lines 1790-1802: result after one run of the draw loop per value of random
DrawResult(gachaItemList, randoms) ==
    IF randoms = <<>> THEN <<>>
    ELSE LET weights == [i \in DOMAIN gachaItemList |-> gachaItemList[i].weight]
             k == DrawFrom(weights, Head(randoms), 1, 0)
         IN (IF k = <<>> THEN <<>> ELSE <<gachaItemList[k[1]]>>)
                \o DrawResult(gachaItemList, Tail(randoms))

\* users.isu_coin and user_cards as init.sh loads them: FirstUser holds the
\* three cards of its deck
InitialBalance == [u \in UserIDs |-> 5000]

DeckCards ==
    {[id |-> i, userID |-> FirstUser, cardID |-> 2, amountPerSec |-> 5,
      level |-> 1, totalExp |-> 0] : i \in {1, 2, 3}}

\* user_decks (written by updateDeck only)
UserDecks == {[userID |-> FirstUser, cardIDs |-> {1, 2, 3}]}

InitDraw ==
    /\ RouteIdle
    /\ TokenIdle
    /\ ProcsIdle
    /\ balance = InitialBalance
    /\ presents = {}
    /\ userCards = DeckCards
    /\ userItems = {}
    /\ userBonuses = {}
    /\ lastActivated = [u \in UserIDs |-> 0]
    /\ sessions = {}
    /\ history = {}

\* what the steps of drawGacha after the token check never touch
nonDrawVars == <<routeVars, tokenVars, pickVars, cacheItems, cacheRewards, now, sent,
                 bonusLog, granted, lastGetReward, muHeld, coinLog, snap>>

\* drawGacha lines 1720-1725: checkOneTimeToken(userID, req.OneTimeToken, 1,
\* requestAt) has returned; ErrInvalidToken is answered 400
DrawGacha(p, g, n) ==
    /\ pc[p] = "idle"
    /\ tpc[p] = "done"
    /\ tres[p] \in {Ok, ErrInvalidToken}
    /\ targ[p].tokenType = 1
    /\ req' = [req EXCEPT ![p] =
                  [handler |-> "drawGacha", userID |-> targ[p].userID,
                   presentIDs |-> {}, requestAt |-> targ[p].requestAt,
                   lastActivatedAt |-> 0, gachaID |-> g, count |-> n,
                   token |-> targ[p].token, isuCoin |-> 0, sum |-> 0]]
    /\ IF tres[p] = Ok
       THEN /\ pc' = [pc EXCEPT ![p] = "dgUser"]
            /\ UNCHANGED res
       ELSE /\ pc' = [pc EXCEPT ![p] = "done"]
            /\ res' = [res EXCEPT ![p] = ErrInvalidToken]
    /\ tpc' = [tpc EXCEPT ![p] = "idle"]
    /\ targ' = [targ EXCEPT ![p] = NoArg]
    /\ tres' = [tres EXCEPT ![p] = None]
    /\ tlate' = [tlate EXCEPT ![p] = FALSE]
    /\ UNCHANGED <<tokenCache, tokenRows, nextToken, succeeded, routeVars, storeVars,
                   gachaVars, pickVars, loginVars, cacheItems, batch, snap, tx,
                   granted>>

\* lines 1734-1746: SELECT * FROM users WHERE id=? on the user's database,
\* outside any transaction, and the balance check
DgUser(p) ==
    /\ pc[p] = "dgUser"
    /\ req' = [req EXCEPT ![p].isuCoin = balance[req[p].userID]]
    /\ IF balance[req[p].userID] < ConsumedCoin(req[p].count)
       THEN /\ pc' = [pc EXCEPT ![p] = "done"]
            /\ res' = [res EXCEPT ![p] = "not enough isucon"]
       ELSE /\ pc' = [pc EXCEPT ![p] = "dgGacha"]
            /\ UNCHANGED res
    /\ UNCHANGED <<storeVars, batch, tx, cacheGacha, nonDrawVars>>

\* lines 1748-1802: the gacha master, the item list (cache first, h.DB on a
\* miss, SetGachaItems), the weight sum, and the gachaCount draws
DgGacha(p) ==
    /\ pc[p] = "dgGacha"
    /\ LET g == req[p].gachaID
           at == req[p].requestAt
           known == \E m \in GachaMasters :
                       m.id = g /\ m.startAt <= at /\ m.endAt >= at
           got == GetGachaItems(g)
           gachaItemList == IF got.cached THEN got.items ELSE GachaItemList(g)
           sum == IF got.cached THEN got.sum ELSE SumOfWeights(gachaItemList)
       IN
       IF ~known
       THEN /\ pc' = [pc EXCEPT ![p] = "done"]
            /\ res' = [res EXCEPT ![p] = "not found gacha"]
            /\ UNCHANGED <<batch, cacheGacha, req>>
       ELSE IF ~got.cached /\ gachaItemList = <<>>
       THEN /\ pc' = [pc EXCEPT ![p] = "done"]
            /\ res' = [res EXCEPT ![p] = "not found gacha item"]
            /\ UNCHANGED <<batch, cacheGacha, req>>
       ELSE /\ cacheGacha' = IF got.cached THEN cacheGacha
                             ELSE SetGachaItems(g, gachaItemList)
            /\ req' = [req EXCEPT ![p].sum = sum]
            /\ IF sum = 0
               THEN /\ pc' = [pc EXCEPT ![p] = "done"]
                    /\ res' = [res EXCEPT ![p] = "invalid gacha weight sum"]
                    /\ UNCHANGED batch
               ELSE /\ \E randoms \in [1..req[p].count -> 0..(sum - 1)] :
                          batch' = [batch EXCEPT ![p] =
                                       DrawResult(gachaItemList, randoms)]
                    /\ pc' = [pc EXCEPT ![p] = "dgWrite"]
                    /\ UNCHANGED res
    /\ UNCHANGED <<storeVars, tx, nonDrawVars>>

\* lines 1804-1851: Beginx on the user's database, one user_presents row per
\* item drawn, and `UPDATE users SET isu_coin=? WHERE id=?` with the balance
\* read at line 1737 less the price
DgWrite(p) ==
    /\ pc[p] = "dgWrite"
    /\ req[p].userID \notin UsersLockedFor(p)
    /\ LET pIDs == GenerateIDs(UsedPresentIDs, Len(batch[p]))
       IN tx' = [tx EXCEPT
                   ![p].presentIns =
                       {[id |-> pIDs[i], userID |-> req[p].userID,
                         itemType |-> batch[p][i].itemType,
                         itemID |-> batch[p][i].itemID,
                         amount |-> batch[p][i].amount,
                         deleted |-> FALSE] : i \in DOMAIN batch[p]},
                   ![p].coinSet = <<req[p].isuCoin - ConsumedCoin(req[p].count)>>]
    /\ pc' = [pc EXCEPT ![p] = "commit"]
    /\ UNCHANGED <<storeVars, req, batch, res, cacheGacha, nonDrawVars>>

\* reward lines 2400-2470: the user, its deck and the deck's cards are read
\* and `UPDATE users SET isu_coin=?, last_getreward_at=? WHERE id=?` is
\* executed on db, the user's database handle: no transaction is begun
Reward(p, u, at) ==
    /\ pc[p] = "idle"
    /\ req' = [req EXCEPT ![p] =
                  [handler |-> "reward", userID |-> u, presentIDs |-> {},
                   requestAt |-> at, lastActivatedAt |-> 0]]
    /\ pc' = [pc EXCEPT ![p] = "done"]
    /\ LET decks == {d \in UserDecks : d.userID = u}
           deck == CHOOSE d \in decks : TRUE
           cards == {c \in userCards : c.id \in deck.cardIDs}
           pastTime == at - lastGetReward[u]
           getCoin == pastTime * SumAmount(SortByID(
                          {[id |-> c.id, amount |-> c.amountPerSec] : c \in cards}))
       IN
       IF decks = {}
       THEN /\ res' = [res EXCEPT ![p] = "sql: no rows in result set"]
            /\ UNCHANGED <<balance, lastGetReward, coinLog>>
       ELSE IF Cardinality(cards) # 3
       THEN /\ res' = [res EXCEPT ![p] = "invalid cards length"]
            /\ UNCHANGED <<balance, lastGetReward, coinLog>>
       ELSE /\ balance' = [balance EXCEPT ![u] = @ + getCoin]
            /\ lastGetReward' = [lastGetReward EXCEPT ![u] = at]
            /\ coinLog' = [coinLog EXCEPT ![u] = @ + getCoin]
            /\ res' = [res EXCEPT ![p] = Ok]
    /\ UNCHANGED <<presents, userCards, userItems, userBonuses, lastActivated,
                   sessions, history, routeVars, tokenVars, pickVars, loginVars,
                   cacheItems, cacheGacha, muHeld, batch, snap, tx, granted>>

\* initializeOne lines 1272-1287: init.sh reloads the tables of the
\* databases; the function is no method of Handler and makes no call on
\* h.Cache or h.TokenCache
InitializeOne(p) ==
    /\ pc[p] = "idle"
    /\ \A q \in Procs : pc[q] = "idle" /\ tpc[q] = "idle"
    /\ req' = [req EXCEPT ![p] =
                  [handler |-> "initializeOne", userID |-> 0, presentIDs |-> {},
                   requestAt |-> 0, lastActivatedAt |-> 0]]
    /\ pc' = [pc EXCEPT ![p] = "done"]
    /\ res' = [res EXCEPT ![p] = Ok]
    /\ balance' = InitialBalance
    /\ presents' = {}
    /\ userCards' = DeckCards
    /\ userItems' = {}
    /\ userBonuses' = {}
    /\ lastActivated' = [u \in UserIDs |-> 0]
    /\ sessions' = {}
    /\ history' = {}
    /\ lastGetReward' = [u \in UserIDs |-> 0]
    /\ coinLog' = [u \in UserIDs |-> 0]
    /\ tokenRows' = [d \in Databases |-> {}]
    /\ UNCHANGED <<tokenCache, nextToken, tpc, targ, tres, tlate, succeeded,
                   routeVars, pickVars, loginVars, cacheItems, cacheGacha, muHeld, batch,
                   snap, tx, granted>>

ServeDraw(P) ==
    \/ \E p \in P, u \in UserIDs, at \in ReqTimes : pc[p] = "idle" /\ ListGacha(p, u, at)
    \/ \E p \in P : LgInvalidate(p)
    \/ \E p \in P : IssueInsert(p)
    \/ \E p \in P : IssueFail(p)
    \/ \E p \in P : IssueSetToken(p)
    \/ \E p \in P : tres[p] \in {"issued", ErrStore} /\ TokenFinish(p)
    \/ \E p \in P, u \in UserIDs, t \in KnownTokens, at \in ReqTimes :
          pc[p] = "idle" /\ CheckOneTimeToken(p, u, t, 1, at)
    \/ \E p \in P : CkExpiredDelete(p)
    \/ \E p \in P : CkExpiredExec(p)
    \/ \E p \in P : CkHitDelete(p)
    \/ \E p \in P : CkHitExec(p)
    \/ \E p \in P : CkSelect(p)
    \/ \E p \in P : CkDbExpiredExec(p)
    \/ \E p \in P : CkDbExec(p)
    \/ \E p \in P, g \in GachaIDs, n \in DrawCounts : DrawGacha(p, g, n)
    \/ \E p \in P : DgUser(p)
    \/ \E p \in P : DgGacha(p)
    \/ \E p \in P : DgWrite(p)
    \/ \E p \in P : Commit(p)
    \/ \E p \in P : StoreError(p)
    \/ \E p \in P : Finish(p)
    \/ \E p \in P, u \in UserIDs, at \in ReqTimes : tpc[p] = "idle" /\ Reward(p, u, at)
    \/ \E p \in P : InitializeOne(p)

NextDraw == ServeDraw(SeqProcs)

SpecDraw == InitDraw /\ [][NextDraw]_vars

\* the gacha has items and all their weights are 0
ZeroWeightGacha(g) ==
    /\ \E m \in GachaItemMasters : m.gachaID = g
    /\ \A m \in GachaItemMasters : m.gachaID = g => m.weight = 0

\* C23: a draw on a gacha whose weights sum to zero ends in an error: no step
\* of such a request changes a balance or the presents, the request never
\* reaches its transaction, holds no pending write and never ends in success
\* (with an empty or shorter list of presents).
C23_ZeroSumFails ==
    [][\A p \in Procs :
          (req'[p].handler = "drawGacha" /\ ZeroWeightGacha(req'[p].gachaID)) =>
              /\ balance' = balance
              /\ presents' = presents
              /\ pc'[p] \notin {"dgWrite", "commit"}
              /\ tx'[p] = EmptyTx
              /\ (pc'[p] = "done" => res'[p] # Ok)
      ]_vars

\* a draw on gacha 2, with a valid token and coins enough, was refused for
\* its weight sum
C23_Witness ==
    \E p \in Procs :
        /\ pc[p] = "done"
        /\ req[p].handler = "drawGacha"
        /\ req[p].gachaID = 2
        /\ req[p].isuCoin >= ConsumedCoin(req[p].count)
        /\ res[p] = "invalid gacha weight sum"

\* C24: a draw refused with Conflict for a balance below count x 1000 has
\* written nothing: the store and the TokenCache are as before the request,
\* so the token the request carried, which checkOneTimeToken accepted, is
\* still held by the cache or still a live row of the user's database.
C24_ConflictWritesNothing ==
    \A p \in Procs :
        (pc[p] = "done" /\ req[p].handler = "drawGacha" /\ res[p] = "not enough isucon") =>
            \/ GetToken(req[p].token) # NoToken
            \/ SelectToken(DBOf(req[p].userID), req[p].token, 1) # {}

\* C25: every write of a user's balance is made inside a store transaction
\* opened on that user's shard: a balance changes only when a request of
\* that user commits a transaction holding a write of isu_coin (the reload
\* of the tables by initializeOne aside).
C25_BalanceInTx ==
    [][\A u \in UserIDs :
          balance'[u] # balance[u] =>
              \/ \E p \in Procs :
                    /\ pc[p] = "commit"
                    /\ pc'[p] = "done"
                    /\ req[p].userID = u
                    /\ (tx[p].coin > 0 \/ tx[p].coinSet # <<>>)
              \/ \E p \in Procs : pc[p] = "idle" /\ req'[p].handler = "initializeOne"
      ]_vars

\* C26: after initializeOne has completed successfully the MasterDataCache
\* holds no entry: no gacha item list, no login bonus reward and no item
\* master is cached when the request has been answered.
C26_InitializeClearsCache ==
    \A p \in Procs :
        (pc[p] = "done" /\ req[p].handler = "initializeOne" /\ res[p] = Ok) =>
            /\ cacheGacha = NoGachaCache
            /\ cacheRewards = {}
            /\ cacheItems = {}

\* C27: every token held by the TokenCache has a matching row of the store
\* that is not deleted: the cache never holds a token the store records as
\* consumed, expired and deleted, or invalidated by a later issuance.
C27_CacheMirrorsStore ==
    \A t \in Tokens :
        tokenCache[t] # NoToken =>
            \E d \in Databases : \E r \in tokenRows[d] :
                /\ r.token = t
                /\ r.userID = tokenCache[t].UserID
                /\ r.tokenType = tokenCache[t].TokenType
                /\ ~r.deleted

\* C28: a call of checkOneTimeToken with the issued kind on a token whose
\* expiry is earlier than the request time returns ErrInvalidToken, and
\* when it has returned the token is absent from the TokenCache and its row
\* is marked deleted in the store.
C28_ExpiredIsDeleted ==
    \A p \in TokenProcs :
        (/\ tpc[p] = "done"
         /\ tres[p] \in {Ok, ErrInvalidToken}
         /\ \E d \in Databases : \E r \in tokenRows[d] :
               /\ r.token = targ[p].token
               /\ r.tokenType = targ[p].tokenType
               /\ r.expiredAt < targ[p].requestAt) =>
            /\ tres[p] = ErrInvalidToken
            /\ GetToken(targ[p].token) = NoToken
            /\ \A d \in Databases : \A r \in tokenRows[d] :
                  r.token = targ[p].token => r.deleted

\* the kind the token of call p was issued with differs from the call's
WrongKind(p) ==
    \E d \in Databases : \E r \in tokenRows[d] :
        r.token = targ[p].token /\ r.tokenType # targ[p].tokenType

\* C29: a call of checkOneTimeToken with a kind different from the kind the
\* token was issued with returns ErrInvalidToken, on the cache-hit path and
\* on the store-fallback path: it never returns success and never reaches a
\* step that deletes the token.
C29_WrongKindFails ==
    \A p \in TokenProcs :
        WrongKind(p) =>
            /\ tpc[p] \in {"ckSelect", "done"}
            /\ (tpc[p] = "done" => tres[p] = ErrInvalidToken)

\* the store-fallback path: the call began after the token had left the
\* cache, and the caller's database holds the live row of the other kind
C29_Witness ==
    \E p \in TokenProcs :
        /\ WrongKind(p)
        /\ tpc[p] = "done"
        /\ tres[p] = ErrInvalidToken
        /\ tlate[p]
        /\ \E r \in tokenRows[DBOf(targ[p].userID)] :
              r.token = targ[p].token /\ ~r.deleted

(***************************************************************************)
(* SpecReceiveTwo: two users routed to different databases receive their   *)
(* presents, each served by a goroutine of its own; a request may name the *)
(* presents of the other user.                                             *)
(***************************************************************************)
\* the user goroutine p serves
ServedUser(p) == p * (2 ^ ShardShift)

\* user_presents: coins and a card twice over for the first user, coins and
\* a material for the second
TwoUserPresents ==
    { [id |-> 1, userID |-> ServedUser(1), itemType |-> 1, itemID |-> 1,
       amount |-> 100, deleted |-> FALSE],
      [id |-> 2, userID |-> ServedUser(1), itemType |-> 2, itemID |-> 2,
       amount |-> 2, deleted |-> FALSE],
      [id |-> 3, userID |-> ServedUser(2), itemType |-> 1, itemID |-> 1,
       amount |-> 30, deleted |-> FALSE],
      [id |-> 4, userID |-> ServedUser(2), itemType |-> 3, itemID |-> 17,
       amount |-> 4, deleted |-> FALSE] }

InitReceiveTwo ==
    /\ RouteIdle
    /\ TokenIdle
    /\ ProcsIdle
    /\ balance = [u \in UserIDs |-> 0]
    /\ presents = TwoUserPresents
    /\ userCards = {}
    /\ userItems = {}
    /\ userBonuses = {}
    /\ lastActivated = [u \in UserIDs |-> 0]
    /\ sessions = {}
    /\ history = {}

NextReceiveTwo ==
    \/ \E p \in Procs : \E ids \in SUBSET {r.id : r \in TwoUserPresents} :
          ReceivePresent(p, ServedUser(p), ids)
    \/ \E p \in Procs : RpMark(p)
    \/ \E p \in Procs : GrantCoin(p)
    \/ \E p \in Procs : GrantCards(p)
    \/ \E p \in Procs : GrantItemsSelect(p)
    \/ \E p \in Procs : GrantItemsWrite(p)
    \/ \E p \in Procs : Commit(p)
    \/ \E p \in Procs : StoreError(p)
    \/ \E p \in Procs : Finish(p)

SpecReceiveTwo == InitReceiveTwo /\ [][NextReceiveTwo]_vars

\* the presents of user v that are received
ReceivedOf(v) == SortByID({r \in presents : r.userID = v /\ r.deleted})

\* the balance, cards and materials of user v are what the presents v has
\* received give
OwnHoldings(v) ==
    /\ balance[v] = CoinTotal(ReceivedOf(v))
    /\ Cardinality({c \in userCards : c.userID = v}) = SumAmount(CardItems(ReceivedOf(v)))
    /\ SumAmount(SortByID({r \in userItems : r.userID = v})) =
           SumAmount(SelectSeq(ReceivedOf(v), IsMaterial))

\* C30: two users routed to different shards do not affect each other: a
\* step of a grant transaction of one user leaves the balance, the cards,
\* the materials and the presents of a user of another shard unchanged, and
\* in every state each user holds exactly what its own received presents
\* give.
C30_ShardIsolation ==
    [][/\ \A p \in Procs : \A v \in UserIDs :
             (pc'[p] # pc[p] /\ DBOf(v) # DBOf(ServedUser(p))) =>
                 /\ balance'[v] = balance[v]
                 /\ {c \in userCards' : c.userID = v} = {c \in userCards : c.userID = v}
                 /\ {r \in userItems' : r.userID = v} = {r \in userItems : r.userID = v}
                 /\ {r \in presents' : r.userID = v} = {r \in presents : r.userID = v}
       /\ \A v \in UserIDs : OwnHoldings(v)'
      ]_vars

\* both users have received presents, the first while a request naming all
\* four presents was served for the second
C30_Witness ==
    /\ \A r \in presents : r.deleted
    /\ \A v \in UserIDs : OwnHoldings(v) /\ balance[v] > 0
    /\ \E p \in Procs :
          /\ pc[p] = "done"
          /\ res[p] = Ok
          /\ req[p].presentIDs = {r.id : r \in TwoUserPresents}

(***************************************************************************)
(* SpecCache: the cache methods at the grain of their mutex.  Every method *)
(* of MasterDataCache and TokenCache is `mu.Lock()` or `mu.RLock()`, the   *)
(* deferred unlock, and map operations between the two; a request is at a  *)
(* cache method (waiting for the mutex, or inside holding it) or at a      *)
(* statement of the store.  Two goroutines serve requests.                 *)
(***************************************************************************)
\* lines 102-223: the mutex each method takes, and whether it locks it for
\* reading (RLock) or for writing (Lock)
CacheCalls ==
    [m \in {"GetToken", "DeleteToken", "SetToken", "GetGachaItems",
            "SetGachaItems", "GetItemMaster", "SetItemMaster", "Clear"} |->
        <<IF m \in {"GetToken", "DeleteToken", "SetToken"}
          THEN "TokenCache" ELSE "MasterDataCache",
          IF m \in {"GetToken", "GetGachaItems", "GetItemMaster"}
          THEN "RLock" ELSE "Lock">>]

\* the statements of the store next to the cache calls: lines 514, 495 and
\* 502 and 522 and 531, 1667 and 2096, 1768, 1055
StoreCalls == {"tokenSelect", "tokenExec", "tokenInsert", "gachaSelect", "itemSelect"}

\* the first call of the part of a handler that uses a cache
FirstCall ==
    [h \in {"checkOneTimeToken", "listGacha", "drawGacha", "obtainItemsBatch",
            "Clear"} |->
        CASE h = "checkOneTimeToken" -> "GetToken"
          [] h = "listGacha" -> "tokenInsert"
          [] h = "drawGacha" -> "GetGachaItems"
          [] h = "obtainItemsBatch" -> "GetItemMaster"
          [] h = "Clear" -> "Clear"]

\* the requests: a token check or an issuance of FirstUser, a draw of a
\* gacha, a batch with one card, a call of Clear
CacheInputs ==
    {<<"checkOneTimeToken",
       [userID |-> FirstUser, token |-> t, tokenType |-> ty, requestAt |-> at]>> :
          t \in KnownTokens, ty \in TokenTypes, at \in ReqTimes}
    \cup {<<"listGacha",
            [userID |-> FirstUser, token |-> 0, tokenType |-> 1, requestAt |-> 0]>>}
    \cup {<<"drawGacha", g>> : g \in GachaIDs}
    \cup {<<"obtainItemsBatch", i>> : i \in {2, 99}}
    \cup {<<"Clear", 0>>}

InitCache ==
    /\ RouteIdle
    /\ TokenIdle
    /\ StoreIdle
    /\ ProcsIdle

\* sync.RWMutex: Lock waits for every holder, RLock for a holder of Lock
MuFree(p, call) ==
    \A q \in Procs \ {p} :
        IF muHeld[q] = NoLock THEN TRUE
        ELSE IF muHeld[q][1] # call[1] THEN TRUE
        ELSE muHeld[q][2] = "RLock" /\ call[2] = "RLock"

\* a method that returns with its mutex still locked
MuUnlockNever(p) == muHeld

\* `defer mu.Unlock()` / `defer mu.RUnlock()`: run when the method returns
MuUnlock(p) == [muHeld EXCEPT ![p] = NoLock]

\* a request reaches the part of its handler that uses a cache
CacheStart(p, h, arg) ==
    /\ pc[p] = "idle"
    /\ h = "checkOneTimeToken" => arg.token < nextToken
    /\ pc' = [pc EXCEPT ![p] = FirstCall[h]]
    /\ req' = [req EXCEPT ![p] = [handler |-> h, arg |-> arg, sum |-> 0]]
    /\ UNCHANGED <<routeVars, tokenVars, storeVars, loginVars, gachaVars, pickVars,
                   cacheItems, batch, snap, tx, res, granted>>

\* mu.Lock() / mu.RLock(), the first statement of every method
MuLock(p) ==
    /\ pc[p] \in DOMAIN CacheCalls
    /\ muHeld[p] = NoLock
    /\ MuFree(p, CacheCalls[pc[p]])
    /\ muHeld' = [muHeld EXCEPT ![p] = CacheCalls[pc[p]]]
    /\ UNCHANGED <<routeVars, tokenVars, storeVars, procVars, loginVars, pickVars,
                   cacheGacha, lastGetReward, coinLog>>

\* the map operations of the method the request is in, its return (the
\* deferred unlock), and what the caller does with the value returned:
\* checkOneTimeToken lines 484-500, listGacha line 1670, drawGacha lines
\* 1764-1783, obtainItemsBatch lines 1038-1062
CacheCall(p) ==
    /\ pc[p] \in DOMAIN CacheCalls
    /\ muHeld[p] = CacheCalls[pc[p]]
    /\ muHeld' = MuUnlock(p)
    /\ LET m == pc[p]
           a == req[p].arg
           info == GetToken(a.token)
           got == GetGachaItems(a)
       IN
       /\ tokenCache' =
             CASE m = "DeleteToken" -> DeleteToken(a.token)
               [] m = "SetToken" ->
                     SetToken(a.token,
                         [UserID |-> a.userID, TokenType |-> a.tokenType,
                          ExpiredAt |-> a.requestAt + TokenTTL,
                          CreatedAt |-> a.requestAt])
               [] OTHER -> tokenCache
       /\ cacheGacha' =
             CASE m = "SetGachaItems" -> SetGachaItems(a, batch[p])
               [] m = "Clear" -> NoGachaCache
               [] OTHER -> cacheGacha
       /\ cacheItems' =
             CASE m = "SetItemMaster" -> cacheItems \cup {a}
               [] m = "Clear" -> {}
               [] OTHER -> cacheItems
       /\ cacheRewards' = IF m = "Clear" THEN {} ELSE cacheRewards
       /\ req' = [req EXCEPT ![p].sum =
                     CASE m = "GetGachaItems" -> got.sum
                       [] m = "SetGachaItems" -> SumOfWeights(batch[p])
                       [] OTHER -> @]
       /\ res' = [res EXCEPT ![p] =
                     CASE m = "GetToken" /\ info # NoToken ->
                              IF info.TokenType # a.tokenType
                                 \/ info.ExpiredAt < a.requestAt
                              THEN ErrInvalidToken ELSE Ok
                       [] m = "SetToken" -> "issued"
                       [] m \in {"Clear", "SetGachaItems", "SetItemMaster"} -> Ok
                       [] m = "GetGachaItems" /\ got.cached -> Ok
                       [] m = "GetItemMaster" /\ a \in cacheItems -> Ok
                       [] OTHER -> @]
       /\ pc' = [pc EXCEPT ![p] =
                    CASE m = "GetToken" ->
                             IF info = NoToken THEN "tokenSelect"
                             ELSE IF info.TokenType # a.tokenType THEN "done"
                             ELSE "DeleteToken"
                      [] m = "DeleteToken" -> "tokenExec"
                      [] m = "GetGachaItems" /\ ~got.cached -> "gachaSelect"
                      [] m = "GetItemMaster" /\ a \notin cacheItems -> "itemSelect"
                      [] OTHER -> "done"]
    /\ UNCHANGED <<routeVars, storeVars, pickVars, tokenRows, nextToken, tpc, targ,
                   tres, tlate, succeeded, now, sent, bonusLog, lastGetReward, coinLog,
                   batch,
                   snap, tx, granted>>

\* the statement of the store the request is at: checkOneTimeToken lines
\* 494-496, 502-505 and 511-536, listGacha lines 1647-1667, drawGacha lines
\* 1766-1774, obtainItemsBatch lines 1047-1057
StoreCall(p) ==
    /\ pc[p] \in StoreCalls
    /\ LET m == pc[p]
           a == req[p].arg
           rows == SelectToken(DBOf(a.userID), a.token, a.tokenType)
           masters == {i \in ItemMasters : i.id = a /\ i.itemType = 2}
       IN
       /\ tokenRows' =
             CASE m = "tokenExec" -> MarkTokenDeleted(DBOf(a.userID), a.token)
               [] m = "tokenInsert" /\ nextToken <= MaxTokens ->
                     [tokenRows EXCEPT ![InsertDB(a.userID)] = @ \cup
                         {[token |-> nextToken, userID |-> a.userID,
                           tokenType |-> a.tokenType,
                           expiredAt |-> a.requestAt + TokenTTL,
                           deleted |-> FALSE]}]
               [] OTHER -> tokenRows
       /\ nextToken' = IF m = "tokenInsert" /\ nextToken <= MaxTokens
                       THEN nextToken + 1 ELSE nextToken
       /\ req' = [req EXCEPT ![p].arg =
                     IF m = "tokenInsert" /\ nextToken <= MaxTokens
                     THEN [a EXCEPT !.token = nextToken] ELSE @]
       /\ batch' = [batch EXCEPT ![p] =
                       IF m = "gachaSelect" THEN GachaItemList(a) ELSE @]
       /\ res' = [res EXCEPT ![p] =
                     CASE m = "tokenSelect" ->
                              IF rows = {} \/ \E r \in rows : r.expiredAt < a.requestAt
                              THEN ErrInvalidToken ELSE Ok
                       [] m = "tokenInsert" /\ nextToken > MaxTokens -> ErrStore
                       [] m = "gachaSelect" /\ GachaItemList(a) = <<>> ->
                              "not found gacha item"
                       [] m = "itemSelect" /\ masters = {} -> ErrItemNotFound
                       [] OTHER -> @]
       /\ pc' = [pc EXCEPT ![p] =
                    CASE m = "tokenSelect" /\ rows # {} -> "tokenExec"
                      [] m = "tokenInsert" /\ nextToken <= MaxTokens -> "SetToken"
                      [] m = "gachaSelect" /\ GachaItemList(a) # <<>> -> "SetGachaItems"
                      [] m = "itemSelect" /\ masters # {} -> "SetItemMaster"
                      [] OTHER -> "done"]
    /\ UNCHANGED <<routeVars, storeVars, loginVars, gachaVars, pickVars, tokenCache,
                   tpc, targ, tres, tlate, succeeded, cacheItems, snap, tx, granted>>

\* the request is answered; the goroutine serves its next request
CacheFinish(p) ==
    /\ pc[p] = "done"
    /\ pc' = [pc EXCEPT ![p] = "idle"]
    /\ req' = [req EXCEPT ![p] = NoReq]
    /\ batch' = [batch EXCEPT ![p] = <<>>]
    /\ res' = [res EXCEPT ![p] = None]
    /\ UNCHANGED <<routeVars, tokenVars, storeVars, loginVars, gachaVars, pickVars,
                   cacheItems, snap, tx, granted>>

NextCache ==
    \/ \E p \in Procs, in \in CacheInputs : CacheStart(p, in[1], in[2])
    \/ \E p \in Procs : MuLock(p)
    \/ \E p \in Procs : CacheCall(p)
    \/ \E p \in Procs : StoreCall(p)
    \/ \E p \in Procs : CacheFinish(p)

SpecCache == InitCache /\ [][NextCache]_vars

LiveRows(p) ==
    {r \in tokenRows[DBOf(targ[p].userID)] :
        r.token = targ[p].token /\ r.tokenType = targ[p].tokenType /\ ~r.deleted}

\* C33: a call of checkOneTimeToken that missed the TokenCache and finds in
\* the store a live, unexpired token of the requested kind goes on to the
\* UPDATE, which marks the row deleted, and returns nil; neither step
\* changes the TokenCache.
C33_StoreHitConsumes ==
    [][\A p \in TokenProcs :
          /\ (/\ tpc[p] = "ckSelect" /\ tpc'[p] # "ckSelect"
              /\ \E r \in LiveRows(p) : r.expiredAt >= targ[p].requestAt
              /\ \A r \in LiveRows(p) : r.expiredAt >= targ[p].requestAt)
                => (tpc'[p] = "ckDbExec" /\ tokenCache' = tokenCache)
          /\ (tpc[p] = "ckDbExec" /\ tpc'[p] # "ckDbExec")
                => /\ tpc'[p] = "done" /\ tres'[p] = Ok
                   /\ tokenCache' = tokenCache
                   /\ \A r \in tokenRows'[DBOf(targ[p].userID)] :
                         r.token = targ[p].token => r.deleted]_vars

\* a call that began after its token had been accepted once has returned
\* nil: the cache no longer held the token, the store path found the row
\* live and marked it
C33_Witness ==
    \E p \in TokenProcs :
        /\ tpc[p] = "done" /\ tres[p] = Ok /\ tlate[p]
        /\ GetToken(targ[p].token) = NoToken
        /\ \E r \in tokenRows[DBOf(targ[p].userID)] :
              r.token = targ[p].token /\ r.deleted

\* C34: a call of checkOneTimeToken that returned nil was made with the user
\* id the token was issued to: the owner of the token's row is the caller.
C34_OwnerOnly ==
    \A p \in TokenProcs :
        (tpc[p] = "done" /\ tres[p] = Ok) =>
            \A d \in Databases : \A r \in tokenRows[d] :
                r.token = targ[p].token => r.userID = targ[p].userID

(***************************************************************************)
(* SpecReissue: the one-time tokens with the requests served one after the *)
(* other, so that a user is issued a token a second time.                  *)
(***************************************************************************)
NextReissue ==
    \/ \E p \in SeqProcs, u \in UserIDs, at \in ReqTimes : ListGacha(p, u, at)
    \/ \E p \in SeqProcs, u \in UserIDs, at \in ReqTimes : ListItem(p, u, at)
    \/ \E p \in SeqProcs : LgInvalidate(p)
    \/ \E p \in SeqProcs : LiInvalidate(p)
    \/ \E p \in SeqProcs : IssueInsertUpTo(p, SeqTokens)
    \/ \E p \in SeqProcs : IssueFail(p)
    \/ \E p \in SeqProcs : IssueSetToken(p)
    \/ \E p \in SeqProcs, u \in UserIDs, t \in KnownTokens, ty \in TokenTypes,
          at \in ReqTimes : CheckOneTimeToken(p, u, t, ty, at)
    \/ \E p \in SeqProcs : CkExpiredDelete(p)
    \/ \E p \in SeqProcs : CkExpiredExec(p)
    \/ \E p \in SeqProcs : CkHitDelete(p)
    \/ \E p \in SeqProcs : CkHitExec(p)
    \/ \E p \in SeqProcs : CkSelect(p)
    \/ \E p \in SeqProcs : CkDbExpiredExec(p)
    \/ \E p \in SeqProcs : CkDbExec(p)
    \/ \E p \in SeqProcs : TokenFinish(p)

SpecReissue == InitToken /\ [][NextReissue]_vars

\* C35: with requests served one after the other, a call of
\* checkOneTimeToken made by a user with one of its tokens returns nil only
\* when no token was issued to that user after it: an issuance leaves the
\* user's earlier tokens unusable.
C35_IssuanceInvalidatesEarlier ==
    \A p \in SeqProcs :
        (tpc[p] = "done" /\ tres[p] = Ok) =>
            ~\E d \in Databases, e \in Databases :
                \E r \in tokenRows[d], l \in tokenRows[e] :
                    /\ r.token = targ[p].token /\ r.userID = targ[p].userID
                    /\ l.userID = r.userID /\ l.token > r.token

(***************************************************************************)
(* SpecCoin: the balance of one user under requests served concurrently:   *)
(* draws, receipts of a coin present, and idle-reward claims, the reward   *)
(* at the grain of its statements.                                         *)
(***************************************************************************)
\* reward lines 2430-2459: the SELECTs of the user, the deck and its cards
\* on the user's database handle, and the balance and time to write
RwRead(p, u, at) ==
    /\ pc[p] = "idle"
    /\ LET decks == {d \in UserDecks : d.userID = u}
           deck == CHOOSE d \in decks : TRUE
           cards == {c \in userCards : c.id \in deck.cardIDs}
           pastTime == at - lastGetReward[u]
           getCoin == pastTime * SumAmount(SortByID(
                          {[id |-> c.id, amount |-> c.amountPerSec] : c \in cards}))
       IN
       /\ req' = [req EXCEPT ![p] =
                     [handler |-> "reward", userID |-> u, presentIDs |-> {},
                      requestAt |-> at, lastActivatedAt |-> 0,
                      isuCoin |-> balance[u] + getCoin, getCoin |-> getCoin]]
       /\ IF decks = {}
          THEN /\ pc' = [pc EXCEPT ![p] = "done"]
               /\ res' = [res EXCEPT ![p] = "sql: no rows in result set"]
          ELSE IF Cardinality(cards) # 3
          THEN /\ pc' = [pc EXCEPT ![p] = "done"]
               /\ res' = [res EXCEPT ![p] = "invalid cards length"]
          ELSE /\ pc' = [pc EXCEPT ![p] = "rwWrite"]
               /\ UNCHANGED res
    /\ UNCHANGED <<storeVars, routeVars, tokenVars, pickVars, loginVars, gachaVars,
                   cacheItems, batch, snap, tx, granted>>

\* reward lines 2461-2466: `UPDATE users SET isu_coin=?, last_getreward_at=?
\* WHERE id=?` on the database handle; it waits for a transaction that has
\* updated the row
RwWrite(p) ==
    /\ pc[p] = "rwWrite"
    /\ req[p].userID \notin UsersLockedFor(p)
    /\ balance' = [balance EXCEPT ![req[p].userID] = req[p].isuCoin]
    /\ lastGetReward' = [lastGetReward EXCEPT ![req[p].userID] = req[p].requestAt]
    /\ coinLog' = [coinLog EXCEPT ![req[p].userID] = @ + req[p].getCoin]
    /\ pc' = [pc EXCEPT ![p] = "done"]
    /\ res' = [res EXCEPT ![p] = Ok]
    /\ UNCHANGED <<presents, userCards, userItems, userBonuses, lastActivated,
                   sessions, history, routeVars, tokenVars, pickVars, loginVars,
                   cacheItems, cacheGacha, muHeld, req, batch, snap, tx, granted>>

\* the request time of the reward claims: past the last claim, so that the
\* first claim committed grants coins
RewardTime == TokenTTL + 100

\* a coin present of FirstUser is pending
InitCoin ==
    /\ RouteIdle
    /\ TokenIdle
    /\ ProcsIdle
    /\ balance = InitialBalance
    /\ presents = {r \in PresentPool : IsCoin(r)}
    /\ userCards = DeckCards
    /\ userItems = {}
    /\ userBonuses = {}
    /\ lastActivated = [u \in UserIDs |-> 0]
    /\ sessions = {}
    /\ history = {}

NextCoin ==
    \/ \E p \in Procs : pc[p] = "idle" /\ ListGacha(p, FirstUser, 0)
    \/ \E p \in Procs : LgInvalidate(p)
    \/ \E p \in Procs : IssueInsert(p)
    \/ \E p \in Procs : IssueFail(p)
    \/ \E p \in Procs : IssueSetToken(p)
    \/ \E p \in Procs : tres[p] \in {"issued", ErrStore} /\ TokenFinish(p)
    \/ \E p \in Procs, t \in Tokens :
          pc[p] = "idle" /\ CheckOneTimeToken(p, FirstUser, t, 1, 0)
    \/ \E p \in Procs : CkHitDelete(p)
    \/ \E p \in Procs : CkHitExec(p)
    \/ \E p \in Procs : CkSelect(p)
    \/ \E p \in Procs : DrawGacha(p, 1, 1)
    \/ \E p \in Procs : DgUser(p)
    \/ \E p \in Procs : DgGacha(p)
    \/ \E p \in Procs : DgWrite(p)
    \/ \E p \in Procs : \E ids \in SUBSET {r.id : r \in PresentPool} :
          tpc[p] = "idle" /\ ReceivePresent(p, FirstUser, ids)
    \/ \E p \in Procs : RpMark(p)
    \/ \E p \in Procs : GrantCoin(p)
    \/ \E p \in Procs : Commit(p)
    \/ \E p \in Procs : StoreError(p)
    \/ \E p \in Procs : Finish(p)
    \/ \E p \in Procs : tpc[p] = "idle" /\ RwRead(p, FirstUser, RewardTime)
    \/ \E p \in Procs : RwWrite(p)

SpecCoin == InitCoin /\ [][NextCoin]_vars

\* C36: in every state reached by draws, receipts of coin presents and
\* idle-reward claims of one user served concurrently, the committed balance
\* is the initial balance plus the coins of every committed grant less 1000
\* for every present a committed draw created.
C36_BalanceAccounts ==
    \A u \in UserIDs : balance[u] = InitialBalance[u] + coinLog[u]

\* C37: the commit of a successful draw of count n, with requests served one
\* after the other, adds exactly n rows to user_presents, each pending,
\* addressed to the user, with the kind, id and amount of an item of the
\* gacha drawn, lowers the user's balance by n * 1000 in the same step, and
\* changes no card and no material.
C37_DrawCreatesPresents ==
    [][\A p \in Procs :
          (req[p].handler = "drawGacha" /\ CommitsOk(p)) =>
              LET u == req[p].userID
                  n == req[p].count
                  new == presents' \ presents
              IN /\ n \in DrawCounts
                 /\ presents \subseteq presents'
                 /\ Cardinality(new) = n
                 /\ \A r \in new :
                       /\ r.userID = u /\ ~r.deleted
                       /\ \E m \in GachaItemMasters :
                             /\ m.gachaID = req[p].gachaID
                             /\ m.itemType = r.itemType
                             /\ m.itemID = r.itemID
                             /\ m.amount = r.amount
                 /\ balance'[u] = balance[u] - n * 1000
                 /\ \A v \in UserIDs \ {u} : balance'[v] = balance[v]
                 /\ userCards' = userCards
                 /\ userItems' = userItems]_vars

\* a draw of ten is committed: ten pending presents of the user, and the
\* balance the reward had raised is lower by 10000
C37_Witness ==
    \E p \in Procs :
        /\ pc[p] = "done" /\ req[p].handler = "drawGacha" /\ res[p] = Ok
        /\ req[p].count = 10
        /\ Cardinality({r \in presents : r.userID = req[p].userID /\ ~r.deleted}) = 10
        /\ balance[req[p].userID] = req[p].isuCoin - 10000

\* C38: every row of user_login_bonuses of a bonus with one column or more
\* has its last reward sequence between 1 and the column count and a loop
\* count of 1 or more, in every state a sequence of logins reaches; no step
\* removes a row or lowers its loop count.
C38_StreakInRange ==
    /\ [](\A r \in userBonuses : \A b \in LoginBonusMasters :
             (b.id = r.bonusID /\ b.columnCount >= 1) =>
                 (r.seq \in 1..b.columnCount /\ r.loop >= 1))
    /\ [][\A r \in userBonuses :
             \E n \in userBonuses' : n.id = r.id /\ n.loop >= r.loop]_vars

\* the row of the looping bonus has wrapped: it is on its second loop, at
\* sequence 1, and the row of the bonus that does not loop is at its last
\* column
C38_Witness ==
    /\ \E r \in userBonuses : \E b \in LoginBonusMasters :
          b.id = r.bonusID /\ b.looped /\ r.loop = 2 /\ r.seq = 1
    /\ \E r \in userBonuses : \E b \in LoginBonusMasters :
          b.id = r.bonusID /\ ~b.looped /\ r.seq = b.columnCount

(***************************************************************************)
(* SpecLate: logins served one after the other on the days up to LateDay,  *)
(* the day a bonus is due whose reward row exists nowhere.                 *)
(***************************************************************************)
\* the user made its first login at time 0; it is two days before LateDay
InitLate == InitLoggedInAt(LateDay - 2 * DayLen)

NextLate == LoginSteps(SeqProcs) \/ TickUpTo(LateDay + DayLen)

SpecLate == InitLate /\ [][NextLate]_vars

\* the rewards due to request p that neither the cache nor the table holds
MissingRewards(p) ==
    {k \in DOMAIN sent[p] :
        /\ <<sent[p][k].bonusID, sent[p][k].seq>> \notin cacheRewards
        /\ ~\E m \in LoginBonusRewardMasters :
              m.bonusID = sent[p][k].bonusID /\ m.seq = sent[p][k].seq}

\* C39: a login for which a reward is due that is in neither the cache nor
\* login_bonus_reward_masters ends, unless the store fails first, with
\* ErrLoginBonusRewardNotFound; the step changes no table, the transaction
\* holds no write afterwards, and the answered request has left the user's
\* streak rows and last activity as they were before it.
C39_RewardNotFoundRollsBack ==
    /\ [][\A p \in Procs :
             (/\ pc[p] = "lpRewards" /\ pc'[p] # "lpRewards"
              /\ MissingRewards(p) # {} /\ res'[p] # ErrStore) =>
                 /\ pc'[p] = "done"
                 /\ res'[p] = ErrLoginBonusRewardNotFound
                 /\ tx'[p] = EmptyTx
                 /\ storeVars' = storeVars]_vars
    /\ [](\A p \in Procs :
             (pc[p] = "done" /\ res[p] = ErrLoginBonusRewardNotFound) =>
                 /\ tx[p] = EmptyTx
                 /\ lastActivated[req[p].userID] < req[p].requestAt
                 /\ \A r \in userBonuses :
                       r.userID = req[p].userID => r.updatedAt < req[p].requestAt)

\* on LateDay the login has failed for the reward of the fourth bonus, after
\* the logins of the days before advanced the looping bonus to its third
\* column and granted its material
C39_Witness ==
    \E p \in Procs :
        /\ pc[p] = "done" /\ res[p] = ErrLoginBonusRewardNotFound
        /\ req[p].requestAt >= LateDay
        /\ \E r \in userBonuses : r.bonusID = 1 /\ r.seq = 3
        /\ userItems # {}
        /\ ~\E r \in userBonuses : r.bonusID = 4


(***************************************************************************)
(* addExpToCard: materials are consumed to raise a card's experience.      *)
(***************************************************************************)
\* user_items of the strengthened user: one row of material 17
ExpItems ==
    {[id |-> 1, userID |-> FirstUser, itemID |-> 17, itemType |-> 3, amount |-> 4]}

\* req.Items of the requests: one unit, a row listed twice, more than is
\* held, and a row the user has not
ExpLists ==
    { <<[id |-> 1, amount |-> 1]>>,
      <<[id |-> 1, amount |-> 2], [id |-> 1, amount |-> 2]>>,
      <<[id |-> 1, amount |-> 5]>>,
      <<[id |-> 1, amount |-> 1], [id |-> 2, amount |-> 1]>> }

\* int(float64(card.BaseExpPerLevel) * math.Pow(1.2, float64(card.Level-1))),
\* line 2202: the product cut to an integer (the masters' base keeps it
\* apart from the integers, where the rounding of the floats would count)
NextLvThreshold(base, level) == (base * 12 ^ (level - 1)) \div (10 ^ (level - 1))

RECURSIVE LevelUp(_, _)
\* lines 2201-2210: the level rises while the threshold does not exceed
\* TotalExp, and the production with it
LevelUp(card, m) ==
    IF NextLvThreshold(m.baseExpPerLevel, card.level) > card.totalExp
    THEN card
    ELSE LevelUp([card EXCEPT
                     !.level = @ + 1,
                     !.amountPerSec = @ + (m.maxAmountPerSec - m.amountPerSec)
                                            \div (m.maxLevel - 1)], m)

\* lines 2141-2146: checkOneTimeToken(userID, req.OneTimeToken, 2, requestAt)
\* has returned; ErrInvalidToken is answered 400
AddExpToCard(p, cardID, items) ==
    /\ pc[p] = "idle"
    /\ tpc[p] = "done"
    /\ tres[p] \in {Ok, ErrInvalidToken}
    /\ targ[p].tokenType = 2
    /\ req' = [req EXCEPT ![p] =
                  [handler |-> "addExpToCard", userID |-> targ[p].userID,
                   presentIDs |-> {}, requestAt |-> targ[p].requestAt,
                   lastActivatedAt |-> 0, cardID |-> cardID, reqItems |-> items,
                   card |-> <<>>, items |-> <<>>]]
    /\ IF tres[p] = Ok
       THEN /\ pc' = [pc EXCEPT ![p] = "aeCard"]
            /\ UNCHANGED res
       ELSE /\ pc' = [pc EXCEPT ![p] = "done"]
            /\ res' = [res EXCEPT ![p] = ErrInvalidToken]
    /\ tpc' = [tpc EXCEPT ![p] = "idle"]
    /\ targ' = [targ EXCEPT ![p] = NoArg]
    /\ tres' = [tres EXCEPT ![p] = None]
    /\ tlate' = [tlate EXCEPT ![p] = FALSE]
    /\ UNCHANGED <<tokenCache, tokenRows, nextToken, succeeded, routeVars, storeVars,
                   gachaVars, pickVars, loginVars, cacheItems, batch, snap, tx,
                   granted>>

\* lines 2155-2171: the card and its master, read on the user's database
\* outside any transaction, and the level check
AeCard(p) ==
    /\ pc[p] = "aeCard"
    /\ LET rows == {c \in userCards :
                       /\ c.id = req[p].cardID /\ c.userID = req[p].userID
                       /\ \E m \in ItemMasters : m.id = c.cardID}
           card == CHOOSE c \in rows : TRUE
       IN
       IF rows = {}
       THEN /\ pc' = [pc EXCEPT ![p] = "done"]
            /\ res' = [res EXCEPT ![p] = "sql: no rows in result set"]
            /\ UNCHANGED req
       ELSE IF card.level = ItemMasterOf(card.cardID).maxLevel
       THEN /\ pc' = [pc EXCEPT ![p] = "done"]
            /\ res' = [res EXCEPT ![p] = "target card is max level"]
            /\ UNCHANGED req
       ELSE /\ req' = [req EXCEPT ![p].card = <<card>>]
            /\ pc' = [pc EXCEPT ![p] = IF req[p].reqItems = <<>>
                                       THEN "aeWrite" ELSE "aeItems"]
            /\ UNCHANGED res
    /\ UNCHANGED <<storeVars, batch, tx, cacheGacha, nonDrawVars>>

\* lines 2180-2194, one run of the loop: the row of v.ID is read on the
\* user's database outside any transaction, v.Amount is compared with its
\* amount, and the row read is appended to items with ConsumeAmount v.Amount
AeItem(p) ==
    /\ pc[p] = "aeItems"
    /\ LET k == Len(req[p].items) + 1
           v == req[p].reqItems[k]
           rows == {r \in userItems :
                       /\ r.itemType = 3 /\ r.id = v.id /\ r.userID = req[p].userID
                       /\ \E m \in ItemMasters : m.id = r.itemID}
           item == CHOOSE r \in rows : TRUE
       IN
       IF rows = {}
       THEN /\ pc' = [pc EXCEPT ![p] = "done"]
            /\ res' = [res EXCEPT ![p] = "sql: no rows in result set"]
            /\ UNCHANGED req
       ELSE IF v.amount > item.amount
       THEN /\ pc' = [pc EXCEPT ![p] = "done"]
            /\ res' = [res EXCEPT ![p] = "item not enough"]
            /\ UNCHANGED req
       ELSE /\ req' = [req EXCEPT ![p].items =
                          Append(@, [id |-> item.id, amount |-> item.amount,
                                     gainedExp |-> ItemMasterOf(item.itemID).gainedExp,
                                     consumeAmount |-> v.amount])]
            /\ pc' = [pc EXCEPT ![p] = IF k = Len(req[p].reqItems)
                                       THEN "aeWrite" ELSE "aeItems"]
            /\ UNCHANGED res
    /\ UNCHANGED <<storeVars, batch, tx, cacheGacha, nonDrawVars>>

RECURSIVE GainedTotal(_, _)
\* lines 2196-2198: card.TotalExp += v.GainedExp * v.ConsumeAmount over items
GainedTotal(items, k) ==
    IF k = 0 THEN 0
    ELSE GainedTotal(items, k - 1) + items[k].gainedExp * items[k].consumeAmount

\* lines 2196-2253: the experience and the level, Beginx on the user's
\* database, the UPDATE of the card and one `UPDATE user_items SET amount=?`
\* per entry of items, with the amount read at line 2182 less ConsumeAmount;
\* of several entries of one row the last UPDATE stays
AeWrite(p) ==
    /\ pc[p] = "aeWrite"
    /\ LET items == req[p].items
           read == req[p].card[1]
           card == LevelUp([read EXCEPT
                               !.totalExp = @ + GainedTotal(items, Len(items))],
                           ItemMasterOf(read.cardID))
           ids == {items[k].id : k \in DOMAIN items}
           last(i) == CHOOSE k \in DOMAIN items :
                         /\ items[k].id = i
                         /\ \A j \in DOMAIN items : items[j].id = i => j <= k
       IN
       /\ card.id \notin CardsLockedFor(p)
       /\ ids \cap ItemsLockedFor(p) = {}
       /\ tx' = [tx EXCEPT
                   ![p].cardUpd = {card},
                   ![p].itemUpd =
                       {[id |-> i,
                         amount |-> items[last(i)].amount
                                      - items[last(i)].consumeAmount] : i \in ids}]
    /\ pc' = [pc EXCEPT ![p] = "commit"]
    /\ UNCHANGED <<storeVars, req, batch, res, cacheGacha, nonDrawVars>>

InitAddExp ==
    /\ RouteIdle
    /\ TokenIdle
    /\ ProcsIdle
    /\ balance = InitialBalance
    /\ presents = {}
    /\ userCards = DeckCards
    /\ userItems = ExpItems
    /\ userBonuses = {}
    /\ lastActivated = [u \in UserIDs |-> 0]
    /\ sessions = {}
    /\ history = {}

NextAddExp ==
    \/ \E p \in Procs : pc[p] = "idle" /\ ListItem(p, FirstUser, 0)
    \/ \E p \in Procs : LiInvalidate(p)
    \/ \E p \in Procs : IssueInsertUpTo(p, SeqTokens)
    \/ \E p \in Procs : IssueFail(p)
    \/ \E p \in Procs : IssueSetToken(p)
    \/ \E p \in Procs : tres[p] \in {"issued", ErrStore} /\ TokenFinish(p)
    \/ \E p \in Procs, t \in Tokens :
          pc[p] = "idle" /\ CheckOneTimeToken(p, FirstUser, t, 2, 0)
    \/ \E p \in Procs : CkHitDelete(p)
    \/ \E p \in Procs : CkHitExec(p)
    \/ \E p \in Procs : CkSelect(p)
    \/ \E p \in Procs, items \in ExpLists : AddExpToCard(p, 1, items)
    \/ \E p \in Procs : AeCard(p)
    \/ \E p \in Procs : AeItem(p)
    \/ \E p \in Procs : AeWrite(p)
    \/ \E p \in Procs : Commit(p)
    \/ \E p \in Procs : StoreError(p)
    \/ \E p \in Procs : Finish(p)

SpecAddExp == InitAddExp /\ [][NextAddExp]_vars

\* the amount requested of user_items row i over the entries of a request
RECURSIVE RequestedOf(_, _, _)
RequestedOf(items, i, k) ==
    IF k = 0 THEN 0
    ELSE RequestedOf(items, i, k - 1) + (IF items[k].id = i THEN items[k].amount ELSE 0)

\* C40: when an addExpToCard call commits, every user_items row it consumed
\* holds afterwards its amount before the commit less the total the request
\* listed for it, and no user_items amount is negative
C40_ConsumedTotal ==
    [][\A p \in Procs :
          pc[p] = "commit" /\ req[p].handler = "addExpToCard" /\ res'[p] = Ok =>
             /\ \A r \in userItems :
                   r.id \in {req[p].reqItems[k].id : k \in DOMAIN req[p].reqItems} =>
                      \E n \in userItems' :
                         /\ n.id = r.id
                         /\ n.amount = r.amount
                              - RequestedOf(req[p].reqItems, r.id, Len(req[p].reqItems))
             /\ \A n \in userItems' : n.amount >= 0]_vars

=============================================================================
